---- MODULE Spec2Model ----
(***************************************************************************)
(* WVOID-FM broadcasting plane: the weekly schedule resolver               *)
(* (mac/schedule.py), the now-playing file and the POST /message handler   *)
(* (mac/now_playing_server.py) and the gapless streaming engine            *)
(* (mac/stream_gapless.py).  Each subsystem has its own specification; the *)
(* variables of the other subsystems stay at their initial values.         *)
(***************************************************************************)
EXTENDS Integers, Sequences, FiniteSets, TLC

VARIABLES
    \* ---- schedule.py ----
    base_raw,        \* schedule.base of the YAML file: list of raw blocks
    overrides_raw,   \* schedule.overrides of the YAML file
    sched_status,    \* "unloaded" | "ok" | "error": outcome of load_schedule
    sched_error,     \* kind of ScheduleError raised ("" when none)
    sched_gap,       \* minute named by the coverage/overlap error, else -1
    schedule,        \* the StationSchedule returned by load_schedule
    now,             \* the instant last passed to resolve: [day, minute]
    resolved,        \* show_id returned by the last resolve ("" before)
    \* ---- the now-playing file: write_json_atomic and its reader ----
    fs_dir,          \* directory: path -> inode number, 0 when the path is absent
    inodes,          \* inode number -> content [doc, len]
    pub_pc,          \* publisher: "idle" | "opened" | "writing" | "written"
    pub_payload,     \* the document being published
    published,       \* TRUE once one write_json_atomic call has returned
    rd_pc,           \* reader: "idle" | "opened"
    rd_fd,           \* inode the reader holds open (0 when none)
    rd_seen,         \* what the reader's last read_text returned
    \* ---- POST /message ----
    clock,           \* time.time(), in ticks of 1/TicksPerSecond s
    last_message_times,  \* client ip -> tick of the last accepted message (-1: no entry)
    messages,        \* the array in messages.json
    last_response,   \* status and wait time of the last response
    \* ---- messages.json, written by two processes ----
    store_file,      \* content of messages.json: the entries, oldest first
    submitted,       \* number of save_message calls made so far
    sv_pc,           \* position of each process inside save_message
    sv_buf,          \* each process's local list named messages
    store_read,      \* the entries of messages.json whose "read" field is true
    sv_read,         \* the entries of each process's local list whose "read" is true
    acked,           \* the messages whose save_message call in the API has returned
    \* ---- stream_gapless.py: run() and pipe_track() ----
    pc,              \* position of the streaming thread in run()/pipe_track()
    running,         \* global running
    encoder_proc,    \* process behind the encoder_proc handle: "none" | "alive" | "dead"
    live_encoders,   \* number of encoder child processes that have not exited
    ctx,             \* show_id of the ProgramContext of the current queue pass
    queue,           \* tracks of the curated queue not yet iterated
    track,           \* the music track of the current iteration
    hour,            \* wall clock, in hours since the start
    current_slot,    \* run(): current_slot of the current iteration
    last_podcast_slot,
    force_segment,
    force_podcast,
    skip_current,
    tracks_since_segment,
    last_segment_type,
    command_file,    \* content of command.txt
    period_files,    \* *.wav in the period sub-folder of the segments directory
    seg_files,       \* *.wav in the root of the segments directory
    now_playing,     \* the document last published by update_now_playing
    site,            \* which pipe_track call of run() is active
    asset,           \* pipe_track(): filepath
    chunks,          \* PCM chunks of asset written to the encoder so far
    pipe_ret,        \* value returned by the last pipe_track call
    decoder,         \* pipe_track(): the decoder child, "none" or "running"
    last_play,       \* the row last appended to the play history
    ded_done,        \* dedications whose playback ran to the end of the file
    \* ---- what a listener's log of the stream would hold ----
    audit,           \* the part of the log below kept in this run: "off", "items", "podcasts"
    run_len,         \* music items streamed since the last segment
    music_n,         \* music items streamed so far
    seg_n,           \* segments streamed so far
    owed,            \* a `segment` command was taken and no segment has followed yet
    cmd_seg,         \* segments begun when the last `segment` command not yet served was taken
    pod_hours,       \* the hours in which a podcast was played
    \* ---- run(): the window of a music track ----
    track_duration,  \* get_track_duration(track), in seconds; 0 stands for None
    start_time,
    play_duration,
    chop_pc,         \* "probed" before the window is chosen, "chosen" after
    \* ---- check_command(), step by step ----
    cc_pc,           \* "idle", or "read" between read_text and write_text
    cc_cmd,          \* check_command(): cmd
    cc_ret,          \* what the last call returned ("" stands for None)
    cc_writes,       \* writes made to command.txt by operators so far
    \* ---- watchdog.py ----
    failure_counts,  \* component -> failed checks since it was last seen healthy
    last_alert_time, \* component -> time.time() of its last DOWN alert, 0 if none
    wd_clock,        \* time.time(), in seconds
    wd_i,            \* run_checks(): index of the component checked next
    wd_alerts,       \* component -> the DOWN alerts handed to send_pushover
    wd_attempts,     \* component -> restart attempts since it was last seen healthy
    \* ---- play_history.py ----
    history_db,      \* "ok", or "failing" while sqlite3 raises on every operation
    \* ---- run(): start-up ----
    sched_file,      \* SCHEDULE_PATH: "absent", "valid" or "invalid"
    station_schedule,\* "none" (fallback) or "loaded"
    boot_pc,         \* "loading" before the schedule is loaded, then "done"
    \* ---- play_history.py: the plays table ----
    plays,           \* rows {filepath, played_at text, at: the instant it denotes}
    ph_now,          \* the instant now, in hours of UTC
    ph_tz,           \* hours that the host's local time is ahead of UTC
    ph_query         \* the call of was_played_recently made on this table at this instant, and its result

schedVars == <<base_raw, overrides_raw, sched_status, sched_error, sched_gap,
               schedule, now, resolved>>

npVars == <<fs_dir, inodes, pub_pc, pub_payload, published, rd_pc, rd_fd, rd_seen>>

storeVars == <<store_file, submitted, sv_pc, sv_buf, store_read, sv_read, acked>>

msgVars == <<clock, last_message_times, messages, last_response, storeVars>>

engCoreVars == <<pc, running, encoder_proc, live_encoders, ctx, queue, track, hour,
                 current_slot, last_podcast_slot, force_segment, force_podcast,
                 skip_current, tracks_since_segment, last_segment_type, command_file,
                 period_files, seg_files, now_playing, site, asset, chunks, pipe_ret,
                 decoder, last_play, ded_done>>

obsVars == <<audit, run_len, music_n, seg_n, owed, cmd_seg, pod_hours>>

chopVars == <<track_duration, start_time, play_duration, chop_pc>>

pollVars == <<cc_pc, cc_cmd, cc_ret, cc_writes>>

engVars == <<engCoreVars, obsVars, chopVars, pollVars>>

wdVars == <<failure_counts, last_alert_time, wd_clock, wd_i, wd_alerts, wd_attempts>>

\* the programs beside the resolver, the server and the engine
histVars == <<history_db>>

bootVars == <<sched_file, station_schedule, boot_pc>>

playVars == <<plays, ph_now, ph_tz, ph_query>>

sideVars == <<wdVars, histVars, bootVars, playVars>>

vars == <<schedVars, npVars, msgVars, engVars, sideVars>>

(***************************************************************************)
(* schedule.py                                                             *)
(***************************************************************************)

MinutesPerDay == 1440
Minutes == 0..(MinutesPerDay - 1)

\* DAY_KEYS / DAY_TO_INDEX: mon=0 .. sun=6
DAY_TO_INDEX ==
    [t \in {"mon", "tue", "wed", "thu", "fri", "sat", "sun"} |->
        CASE t = "mon" -> 0 [] t = "tue" -> 1 [] t = "wed" -> 2 [] t = "thu" -> 3
          [] t = "fri" -> 4 [] t = "sat" -> 5 [] t = "sun" -> 6]

\* The shows section of the configuration (fixed, valid).
Shows == {"night", "day", "X", "Y", "Z"}

\* A time string "HH:MM" is the pair <<HH, MM>>.
BadTime == -1

\* _parse_time_hhmm: hour * 60 + minute, or an error when out of range.
ParseTimeHHMM(t) ==
    IF t[1] < 0 \/ t[1] > 23 \/ t[2] < 0 \/ t[2] > 59
    THEN BadTime
    ELSE t[1] * 60 + t[2]

\* _parse_days: expand the tokens and map them to indices; {} stands for the
\* ScheduleError raised on a missing/empty list or an unknown token.
ExpandDayToken(tok) ==
    CASE tok \in {"daily", "all"} -> {"mon", "tue", "wed", "thu", "fri", "sat", "sun"}
      [] tok = "weekday" -> {"mon", "tue", "wed", "thu", "fri"}
      [] tok = "weekend" -> {"sat", "sun"}
      [] OTHER -> {tok}

ParseDays(value) ==
    LET expanded == UNION {ExpandDayToken(value[i]) : i \in DOMAIN value}
    IN  IF value = <<>> \/ \E tok \in expanded : tok \notin DOMAIN DAY_TO_INDEX
        THEN {}
        ELSE {DAY_TO_INDEX[tok] : tok \in expanded}

\* days of a base block (None in the source)
NoDays == {-1}

\* load_schedule._parse_block
ParseBlock(cfg, day_aware) ==
    [start_minute |-> ParseTimeHHMM(cfg.start),
     end_minute   |-> ParseTimeHHMM(cfg.end),
     show_id      |-> cfg.show,
     days         |-> IF day_aware THEN ParseDays(cfg.days) ELSE NoDays]

BlockParseFails(b) ==
    \/ b.start_minute = BadTime
    \/ b.end_minute = BadTime
    \/ b.show_id = ""
    \/ b.days = {}

\* _expand_minutes for start # end: the list of half-open ranges.
ExpandMinutesCrossSplitMissing(start_minute, end_minute) ==
    IF end_minute > start_minute
    THEN <<(<<start_minute, end_minute>>)>>
    ELSE <<(<<start_minute, MinutesPerDay>>)>>

ExpandMinutes(start_minute, end_minute) ==
    IF end_minute > start_minute
    THEN <<(<<start_minute, end_minute>>)>>
    ELSE <<(<<start_minute, MinutesPerDay>>), (<<0, end_minute>>)>>

\* validate: coverage[m] after the loop over the base blocks
CoverageCount(base, m) ==
    LET InRanges(rs) == \E k \in DOMAIN rs : rs[k][1] <= m /\ m < rs[k][2]
    IN  Cardinality({i \in DOMAIN base :
            InRanges(ExpandMinutes(base[i].start_minute, base[i].end_minute))})

\* first element of a non-empty set of minutes (uncovered[0], overlapped[0])
FirstMinute(S) == CHOOSE m \in S : \A k \in 0..(m - 1) : k \notin S

\* StationSchedule.validate: <<error kind, minute>>; kind "" when it passes.
Validate(base, overrides) ==
    IF base = <<>> THEN <<"empty", -1>>
    ELSE IF \E i \in DOMAIN base : base[i].start_minute = base[i].end_minute
    THEN <<"same", -1>>
    ELSE LET uncovered == {m \in Minutes : CoverageCount(base, m) = 0}
         IN  IF uncovered # {} THEN <<"gap", FirstMinute(uncovered)>>
             ELSE LET overlapped == {m \in Minutes : CoverageCount(base, m) > 1}
                  IN  IF overlapped # {} THEN <<"overlap", FirstMinute(overlapped)>>
                      ELSE IF \E i \in DOMAIN base : base[i].show_id \notin Shows
                      THEN <<"unknown_show", -1>>
                      ELSE IF \E i \in DOMAIN overrides : overrides[i].show_id \notin Shows
                      THEN <<"unknown_show", -1>>
                      ELSE <<"", -1>>

\* ScheduleBlock.matches(now), now = [day, minute]
MatchesNoCarry(block, t) ==
    LET minute == t.minute
        day == t.day
    IN  IF block.days = NoDays
        THEN IF block.end_minute > block.start_minute
             THEN block.start_minute <= minute /\ minute < block.end_minute
             ELSE minute >= block.start_minute \/ minute < block.end_minute
        ELSE IF block.end_minute > block.start_minute
             THEN day \in block.days /\ block.start_minute <= minute
                  /\ minute < block.end_minute
             ELSE day \in block.days
                  /\ (minute >= block.start_minute \/ minute < block.end_minute)

Matches(block, t) ==
    LET minute == t.minute
        day == t.day
        prev_day == (day - 1) % 7
    IN  IF block.days = NoDays
        THEN IF block.end_minute > block.start_minute
             THEN block.start_minute <= minute /\ minute < block.end_minute
             ELSE minute >= block.start_minute \/ minute < block.end_minute
        ELSE IF block.end_minute > block.start_minute
             THEN day \in block.days /\ block.start_minute <= minute
                  /\ minute < block.end_minute
             ELSE \/ day \in block.days /\ minute >= block.start_minute
                  \/ prev_day \in block.days /\ minute < block.end_minute

\* the "for block in blocks: if block.matches(now): return" loops of resolve;
\* "" when the loop falls through
RECURSIVE FirstMatch(_, _, _)
FirstMatch(blocks, i, t) ==
    IF i > Len(blocks) THEN ""
    ELSE IF Matches(blocks[i], t) THEN blocks[i].show_id
    ELSE FirstMatch(blocks, i + 1, t)

\* StationSchedule.resolve(now): overrides first, then base; "" stands for
\* the ScheduleError of the last line.
ResolveBaseFirst(s, t) ==
    LET b == FirstMatch(s.base, 1, t)
    IN  IF b # "" THEN b ELSE FirstMatch(s.overrides, 1, t)

ResolveShow(s, t) ==
    LET o == FirstMatch(s.overrides, 1, t)
    IN  IF o # "" THEN o ELSE FirstMatch(s.base, 1, t)

\* ---- inputs of the schedule specification ----

MaxBase == 3       \* longest schedule.base list tried

\* raw base blocks the configuration is drawn from
BaseBlockChoices ==
    { [start |-> <<0, 0>>,   end |-> <<6, 0>>,  show |-> "night"],
      [start |-> <<6, 0>>,   end |-> <<21, 0>>, show |-> "day"],
      [start |-> <<21, 0>>,  end |-> <<0, 0>>,  show |-> "night"],
      [start |-> <<22, 0>>,  end |-> <<2, 0>>,  show |-> "X"],
      [start |-> <<2, 0>>,   end |-> <<22, 0>>, show |-> "day"],
      [start |-> <<6, 0>>,   end |-> <<6, 0>>,  show |-> "day"] }

\* lists of distinct blocks, in any order
BaseLists ==
    {s \in UNION {[1..n -> BaseBlockChoices] : n \in 0..MaxBase} :
        \A i, j \in DOMAIN s : i # j => s[i] # s[j]}

\* raw override lists the configuration is drawn from
OvFri   == [start |-> <<22, 0>>, end |-> <<2, 0>>,  show |-> "Y", days |-> <<"fri">>]
OvSun   == [start |-> <<22, 0>>, end |-> <<2, 0>>,  show |-> "Z", days |-> <<"sun">>]
OvLate  == [start |-> <<23, 0>>, end |-> <<1, 0>>,  show |-> "Z", days |-> <<"fri", "sat">>]
OvWkend == [start |-> <<0, 0>>,  end |-> <<6, 0>>,  show |-> "Y", days |-> <<"weekend">>]
OvSame  == [start |-> <<22, 0>>, end |-> <<22, 0>>, show |-> "Y", days |-> <<"fri">>]
OvGhost == [start |-> <<6, 0>>,  end |-> <<21, 0>>, show |-> "ghost", days |-> <<"daily">>]
OvBad   == [start |-> <<21, 0>>, end |-> <<24, 0>>, show |-> "Y", days |-> <<"fri">>]

OverrideLists ==
    { <<>>, <<OvFri>>, <<OvSun>>, <<OvFri, OvLate>>, <<OvLate, OvFri>>,
      <<OvWkend, OvSun>>, <<OvSame>>, <<OvGhost>>, <<OvBad>> }

\* instants resolve is called with
NowMinutes == {0, 90, 359, 360, 1320, 1410}
Days == 0..6

NoSchedule == [base |-> <<>>, overrides |-> <<>>]

\* the schedule subsystem before any configuration is looked at
SchedIdle ==
    /\ base_raw = <<>>
    /\ overrides_raw = <<>>
    /\ sched_status = "unloaded"
    /\ sched_error = ""
    /\ sched_gap = -1
    /\ schedule = NoSchedule
    /\ now = [day |-> 0, minute |-> 0]
    /\ resolved = ""

SchedInit ==
    /\ base_raw \in BaseLists
    /\ overrides_raw \in OverrideLists
    /\ sched_status = "unloaded"
    /\ sched_error = ""
    /\ sched_gap = -1
    /\ schedule = NoSchedule
    /\ now = [day |-> 0, minute |-> 0]
    /\ resolved = ""

\* load_schedule(path): parse the blocks, build the StationSchedule, validate.
LoadSchedule ==
    /\ sched_status = "unloaded"
    /\ LET base_blocks == [i \in DOMAIN base_raw |-> ParseBlock(base_raw[i], FALSE)]
           override_blocks ==
               [i \in DOMAIN overrides_raw |-> ParseBlock(overrides_raw[i], TRUE)]
       IN  IF base_raw = <<>>
           THEN /\ sched_status' = "error"
                /\ sched_error' = "empty"
                /\ UNCHANGED <<sched_gap, schedule>>
           ELSE IF \/ \E i \in DOMAIN base_blocks : BlockParseFails(base_blocks[i])
                   \/ \E i \in DOMAIN override_blocks : BlockParseFails(override_blocks[i])
           THEN /\ sched_status' = "error"
                /\ sched_error' = "parse"
                /\ UNCHANGED <<sched_gap, schedule>>
           ELSE \E v \in {Validate(base_blocks, override_blocks)} :
                    IF v[1] = ""
                    THEN /\ sched_status' = "ok"
                         /\ schedule' = [base |-> base_blocks, overrides |-> override_blocks]
                         /\ UNCHANGED <<sched_error, sched_gap>>
                    ELSE /\ sched_status' = "error"
                         /\ sched_error' = v[1]
                         /\ sched_gap' = v[2]
                         /\ UNCHANGED schedule
    /\ UNCHANGED <<base_raw, overrides_raw, now, resolved>>
    /\ UNCHANGED <<npVars, msgVars, engVars, sideVars>>

\* schedule.resolve(now) on the loaded schedule
Resolve ==
    /\ sched_status = "ok"
    /\ \E d \in Days, m \in NowMinutes :
        /\ now' = [day |-> d, minute |-> m]
        /\ resolved' = ResolveShow(schedule, now')
    /\ UNCHANGED <<base_raw, overrides_raw, sched_status, sched_error, sched_gap, schedule>>
    /\ UNCHANGED <<npVars, msgVars, engVars, sideVars>>

SchedNext == LoadSchedule \/ Resolve

(***************************************************************************)
(* The now-playing file: stream_gapless.write_json_atomic (publisher) and  *)
(* now_playing_server.get_now_playing (reader)                             *)
(***************************************************************************)

NumInodes == 3     \* inode numbers available to the file system model

\* NowPlaying documents (json.dumps(payload))
Docs == {"doc_a", "doc_b"}

\* length of a complete document, in write() pieces
DocLen == 2

FreeInode == [doc |-> "", len |-> -1]

TargetPath == "now_playing.json"

\* tmp_path = path.with_name(f".{path.name}.tmp")
TmpPathInPlace == TargetPath

TmpPath == ".now_playing.json.tmp"

Paths == {TargetPath, ".now_playing.json.tmp"}

\* inode numbers reachable through the directory or an open descriptor
InUse(d, fd) == {d[p] : p \in Paths} \cup {fd}

\* content of the inodes once unreferenced ones are reclaimed
Reclaim(ino, d, fd) ==
    [i \in 1..NumInodes |-> IF i \in InUse(d, fd) THEN ino[i] ELSE FreeInode]

\* os.replace(src, dst): dst names src's inode, src disappears
Replace(d, src, dst) ==
    IF src = dst THEN d
    ELSE [p \in Paths |-> IF p = dst THEN d[src] ELSE IF p = src THEN 0 ELSE d[p]]

IsComplete(c) == c.doc \in Docs /\ c.len = DocLen

NpInit ==
    /\ fs_dir = [p \in Paths |-> 0]
    /\ inodes = [i \in 1..NumInodes |-> FreeInode]
    /\ pub_pc = "idle"
    /\ pub_payload = ""
    /\ published = FALSE
    /\ rd_pc = "idle"
    /\ rd_fd = 0
    /\ rd_seen = "never"

\* tmp_path.write_text: open(tmp, "w") creates the file or truncates it
PubOpen ==
    /\ pub_pc = "idle"
    /\ \E v \in Docs :
        /\ pub_payload' = v
        /\ IF fs_dir[TmpPath] # 0
           THEN /\ inodes' = [inodes EXCEPT ![fs_dir[TmpPath]] = [doc |-> v, len |-> 0]]
                /\ UNCHANGED fs_dir
           ELSE \E i \in 1..NumInodes :
                  /\ i \notin InUse(fs_dir, rd_fd)
                  /\ \A j \in 1..(i - 1) : j \in InUse(fs_dir, rd_fd)
                  /\ fs_dir' = [fs_dir EXCEPT ![TmpPath] = i]
                  /\ inodes' = [inodes EXCEPT ![i] = [doc |-> v, len |-> 0]]
    /\ pub_pc' = "opened"
    /\ UNCHANGED <<published, rd_pc, rd_fd, rd_seen>>
    /\ UNCHANGED <<schedVars, msgVars, engVars, sideVars>>

\* tmp_path.write_text: the bytes reach the file piece by piece
PubWrite ==
    /\ pub_pc \in {"opened", "writing"}
    /\ LET i == fs_dir[TmpPath]
           n == inodes[i].len + 1
       IN  /\ inodes' = [inodes EXCEPT ![i].len = n]
           /\ pub_pc' = IF n = DocLen THEN "written" ELSE "writing"
    /\ UNCHANGED <<fs_dir, pub_payload, published, rd_pc, rd_fd, rd_seen>>
    /\ UNCHANGED <<schedVars, msgVars, engVars, sideVars>>

\* tmp_path.replace(path)
PubReplace ==
    /\ pub_pc = "written"
    /\ fs_dir' = Replace(fs_dir, TmpPath, TargetPath)
    /\ inodes' = Reclaim(inodes, fs_dir', rd_fd)
    /\ pub_pc' = "idle"
    /\ published' = TRUE
    /\ UNCHANGED <<pub_payload, rd_pc, rd_fd, rd_seen>>
    /\ UNCHANGED <<schedVars, msgVars, engVars, sideVars>>

\* write_text raises (update_now_playing swallows it): the temp file is left behind
PubFail ==
    /\ pub_pc \in {"opened", "writing"}
    /\ pub_pc' = "idle"
    /\ UNCHANGED <<fs_dir, inodes, pub_payload, published, rd_pc, rd_fd, rd_seen>>
    /\ UNCHANGED <<schedVars, msgVars, engVars, sideVars>>

\* get_now_playing: NOW_PLAYING_FILE.exists(), then read_text opens the file
ReaderOpen ==
    /\ rd_pc = "idle"
    /\ IF fs_dir[TargetPath] = 0
       THEN /\ rd_seen' = "absent"
            /\ UNCHANGED <<rd_pc, rd_fd>>
       ELSE /\ rd_fd' = fs_dir[TargetPath]
            /\ rd_pc' = "opened"
            /\ UNCHANGED rd_seen
    /\ UNCHANGED <<fs_dir, inodes, pub_pc, pub_payload, published>>
    /\ UNCHANGED <<schedVars, msgVars, engVars, sideVars>>

\* read_text: read what the opened inode holds now, close
ReaderRead ==
    /\ rd_pc = "opened"
    /\ rd_seen' = IF IsComplete(inodes[rd_fd]) THEN inodes[rd_fd].doc
                  ELSE IF inodes[rd_fd].len = 0 THEN "empty" ELSE "partial"
    /\ rd_fd' = 0
    /\ rd_pc' = "idle"
    /\ inodes' = Reclaim(inodes, fs_dir, 0)
    /\ UNCHANGED <<fs_dir, pub_pc, pub_payload, published>>
    /\ UNCHANGED <<schedVars, msgVars, engVars, sideVars>>

NpNext == PubOpen \/ PubWrite \/ PubReplace \/ PubFail \/ ReaderOpen \/ ReaderRead

(***************************************************************************)
(* now_playing_server.py: POST /message                                    *)
(***************************************************************************)

TicksPerSecond == 2      \* resolution of the model's clock

MESSAGE_COOLDOWN == 300  \* seconds

MESSAGE_MAX_LEN == 280

MESSAGE_RING == 100

Clients == {"ip1", "ip2"}

\* instants (in ticks) at which the clock is looked at
ArrivalTicks ==
    {0, 1, (MESSAGE_COOLDOWN - 1) * TicksPerSecond + 1, MESSAGE_COOLDOWN * TicksPerSecond,
     MESSAGE_COOLDOWN * TicksPerSecond + 1, 2 * MESSAGE_COOLDOWN * TicksPerSecond}

\* request bodies: kind of payload, and the length of message.strip()
Bodies ==
    { [kind |-> "ok", len |-> 5], [kind |-> "ok", len |-> MESSAGE_MAX_LEN],
      [kind |-> "ok", len |-> MESSAGE_MAX_LEN + 1], [kind |-> "ok", len |-> 0],
      [kind |-> "no_message", len |-> 0], [kind |-> "not_json", len |-> 0],
      [kind |-> "not_object", len |-> 0], [kind |-> "message_not_string", len |-> 0] }

\* before: number of stored messages when the request arrived
\* body: the request body that was answered
NoBody == [kind |-> "", len |-> 0]
NoResponse == [code |-> 0, wait |-> -1, ip |-> "", body |-> NoBody, at |-> -1, before |-> 0]

MsgInit ==
    /\ clock = 0
    /\ last_message_times = [c \in Clients |-> -1]
    /\ messages = <<>>
    /\ last_response = NoResponse
    /\ store_file = <<>>
    /\ submitted = 0
    /\ sv_pc = [w \in {"http", "telegram", "processor"} |-> "idle"]
    /\ sv_buf = [w \in {"http", "telegram", "processor"} |-> <<>>]
    /\ store_read = {}
    /\ sv_read = [w \in {"http", "telegram", "processor"} |-> {}]
    /\ acked = {}

\* time passes
Tick ==
    /\ \E t \in ArrivalTicks : t > clock /\ clock' = t
    /\ UNCHANGED <<last_message_times, messages, last_response, storeVars>>
    /\ UNCHANGED <<schedVars, npVars, engVars, sideVars>>

\* messages[-100:]
LastN(s, n) == IF Len(s) <= n THEN s ELSE SubSeq(s, Len(s) - n + 1, Len(s))

\* save_message(message, ip): load, append, keep the last 100, rewrite
SaveMessage(msgs, ip, t) == LastN(Append(msgs, [ip |-> ip, at |-> t, read |-> FALSE]), MESSAGE_RING)

\* int(MESSAGE_COOLDOWN - (now - last_message_times[client_ip]))
WaitTime(t, last) == (MESSAGE_COOLDOWN * TicksPerSecond - (t - last)) \div TicksPerSecond

\* NowPlayingHandler.do_POST for path /message
DoPost ==
    /\ \E client_ip \in Clients, body \in Bodies :
        IF /\ last_message_times[client_ip] # -1
           /\ clock - last_message_times[client_ip] < MESSAGE_COOLDOWN * TicksPerSecond
        THEN /\ last_response' = [code |-> 429, ip |-> client_ip, body |-> body, at |-> clock, before |-> Len(messages),
                                  wait |-> WaitTime(clock, last_message_times[client_ip])]
             /\ UNCHANGED <<last_message_times, messages>>
        ELSE IF body.kind \in {"not_json", "not_object", "message_not_string"}
        THEN \* json.loads / data.get / .strip raise: except Exception -> 500
             /\ last_response' = [code |-> 500, ip |-> client_ip, body |-> body, at |-> clock,
                                  before |-> Len(messages), wait |-> -1]
             /\ UNCHANGED <<last_message_times, messages>>
        ELSE IF body.kind = "no_message" \/ body.len = 0 \/ body.len > MESSAGE_MAX_LEN
        THEN /\ last_response' = [code |-> 400, ip |-> client_ip, body |-> body, at |-> clock,
                                  before |-> Len(messages), wait |-> -1]
             /\ UNCHANGED <<last_message_times, messages>>
        ELSE /\ messages' = SaveMessage(messages, client_ip, clock)
             /\ last_message_times' = [last_message_times EXCEPT ![client_ip] = clock]
             /\ last_response' = [code |-> 200, ip |-> client_ip, body |-> body, at |-> clock,
                                  before |-> Len(messages), wait |-> -1]
    /\ UNCHANGED <<clock, storeVars>>
    /\ UNCHANGED <<schedVars, npVars, engVars, sideVars>>

MsgNext == Tick \/ DoPost

(***************************************************************************)
(* messages.json: save_message of now_playing_server.py and of             *)
(* telegram_listener.py, two processes that rewrite the same file          *)
(***************************************************************************)

MaxSubmitted == 3       \* save_message calls made on top of the initial store

\* the processes that call save_message
Writers == {"http", "telegram"}

\* the processes that rewrite messages.json: the two above and the
\* dedication processor, which calls mark_read
Rewriters == Writers \cup {"processor"}

\* mark_read(index): the indexes that process_message passes
MarkIndexes == {0, 1}

\* sizes of the store when the processes start
InitialSizes == {0, MESSAGE_RING - 1, MESSAGE_RING}

\* the messages numbered a..b in arrival order
Arrivals(a, b) == [i \in 1..(b - a + 1) |-> a + i - 1]

\* the most recent n of the first k messages
MostRecent(k, n) == IF k <= n THEN Arrivals(1, k) ELSE Arrivals(k - n + 1, k)

StoreInit ==
    /\ \E k \in InitialSizes : /\ store_file = Arrivals(1, k)
                               /\ submitted = k
    /\ sv_pc = [w \in Rewriters |-> "idle"]
    /\ sv_buf = [w \in Rewriters |-> <<>>]
    /\ store_read = {}
    /\ sv_read = [w \in Rewriters |-> {}]
    /\ acked = {}
    /\ clock = 0
    /\ last_message_times = [c \in Clients |-> -1]
    /\ messages = <<>>
    /\ last_response = NoResponse

Range(f) == {f[i] : i \in DOMAIN f}

\* save_message, first half: json.load(f) (an empty or cut-off file raises
\* and gives []), messages.append(...), messages = messages[-100:]
SaveLoad(w) ==
    /\ sv_pc[w] = "idle"
    /\ \E k \in InitialSizes : submitted < k + MaxSubmitted /\ submitted >= k
    /\ submitted' = submitted + 1
    /\ sv_buf' = [sv_buf EXCEPT ![w] = LastN(Append(store_file, submitted + 1), MESSAGE_RING)]
    /\ sv_read' = [sv_read EXCEPT ![w] = store_read \cap Range(sv_buf'[w])]
    /\ sv_pc' = [sv_pc EXCEPT ![w] = "loaded"]
    /\ UNCHANGED <<store_file, store_read, acked>>
    /\ UNCHANGED <<clock, last_message_times, messages, last_response>>
    /\ UNCHANGED <<schedVars, npVars, engVars, sideVars>>

\* open(MESSAGES_FILE, "w"): the file is cut to length zero
SaveOpen(w) ==
    /\ sv_pc[w] = "loaded"
    /\ store_file' = <<>>
    /\ store_read' = {}
    /\ sv_pc' = [sv_pc EXCEPT ![w] = "opened"]
    /\ UNCHANGED <<submitted, sv_buf, sv_read, acked>>
    /\ UNCHANGED <<clock, last_message_times, messages, last_response>>
    /\ UNCHANGED <<schedVars, npVars, engVars, sideVars>>

\* json.dump(messages, f) and close
SaveDump(w) ==
    /\ sv_pc[w] = "opened"
    /\ store_file' = sv_buf[w]
    /\ store_read' = sv_read[w]
    /\ sv_pc' = [sv_pc EXCEPT ![w] = "idle"]
    /\ sv_buf' = [sv_buf EXCEPT ![w] = <<>>]
    /\ sv_read' = [sv_read EXCEPT ![w] = {}]
    /\ acked' = IF w = "http" THEN acked \cup {sv_buf[w][Len(sv_buf[w])]} ELSE acked
    /\ UNCHANGED submitted
    /\ UNCHANGED <<clock, last_message_times, messages, last_response>>
    /\ UNCHANGED <<schedVars, npVars, engVars, sideVars>>

SaveHttp == SaveLoad("http") \/ SaveOpen("http") \/ SaveDump("http")

SaveTelegram == SaveLoad("telegram") \/ SaveOpen("telegram") \/ SaveDump("telegram")

StoreNext == SaveHttp \/ SaveTelegram

\* dedication_processor.mark_read(index), first half: load_messages() (an
\* empty or cut-off file gives []) and, for an index inside the list, the
\* entry's "read" set in the local list; an index outside it writes nothing
MarkLoad ==
    /\ sv_pc["processor"] = "idle"
    /\ \E index \in MarkIndexes :
         /\ index < Len(store_file)
         /\ sv_buf' = [sv_buf EXCEPT !["processor"] = store_file]
         /\ sv_read' = [sv_read EXCEPT !["processor"] =
                            store_read \cup {store_file[index + 1]}]
    /\ sv_pc' = [sv_pc EXCEPT !["processor"] = "loaded"]
    /\ UNCHANGED <<store_file, store_read, submitted, acked>>
    /\ UNCHANGED <<clock, last_message_times, messages, last_response>>
    /\ UNCHANGED <<schedVars, npVars, engVars, sideVars>>

\* mark_read: the load above, then save_messages: open(MESSAGES_FILE, "w")
\* and json.dump
MarkRead == MarkLoad \/ SaveOpen("processor") \/ SaveDump("processor")

RewritersNext == SaveHttp \/ SaveTelegram \/ MarkRead

(***************************************************************************)
(* stream_gapless.py: the streaming engine                                 *)
(***************************************************************************)

MaxChunks == 1     \* most PCM chunks one decoder produces
MaxEncoders == 3   \* encoder children the model counts

\* the music and podcast libraries (get_all_music, get_all_podcasts)
Music == {"m1.mp3", "m2.mp3"}
Podcasts == {"p1.mp3"}

\* segment files; the dedication processor writes listener_dedication_*.wav
\* into the root of the segments directory, a later name being a newer file
Dedications == {"listener_dedication_1.wav"}
RootSegments == {"station_id_1.wav"}
PeriodSegments == {"weather_1.wav"}

\* instants of the wall clock the model distinguishes
Hours == {0, 1, 3}

\* the shows of the schedule, as get_program_context returns them
ShowCfg ==
    [A |-> [show_name |-> "Show A", segment_after_tracks |-> 2, podcasts_enabled |-> TRUE],
     B |-> [show_name |-> "Show B", segment_after_tracks |-> 1, podcasts_enabled |-> FALSE],
     C |-> [show_name |-> "Show C", segment_after_tracks |-> 3, podcasts_enabled |-> TRUE]]

\* the largest segment_after_tracks of a show: tracks_since_segment is only
\* compared with a show's value, so it is counted up to here
MaxInterval ==
    CHOOSE n \in {ShowCfg[c].segment_after_tracks : c \in DOMAIN ShowCfg} :
        \A c \in DOMAIN ShowCfg : ShowCfg[c].segment_after_tracks <= n

\* get_program_context(station_schedule).show_id at hour h
ShowAt(h) == IF h < 3 THEN "A" ELSE IF h < 5 THEN "B" ELSE "C"

\* ctx.podcast_hours
PODCAST_HOURS == {0, 3, 6, 9, 12, 15, 18, 21}

\* a slot identity that does not change with the clock
SlotOfStuck(h) == 0

\* now.strftime("%Y%m%d%H"): one slot per hour of the clock
SlotOf(h) == h

NoSlot == -1

\* get_segment_type: first entry of SEGMENT_TYPES contained in the file name
SegmentType(f) ==
    IF f \in Dedications THEN "listener_dedication"
    ELSE IF f \in RootSegments THEN "station_id"
    ELSE IF f \in PeriodSegments THEN "weather"
    ELSE "other"

\* filepath.stem
Stem(f) ==
    CASE f = "m1.mp3" -> "m1"
      [] f = "m2.mp3" -> "m2"
      [] f = "p1.mp3" -> "p1"
      [] f = "listener_dedication_1.wav" -> "listener_dedication_1"
      [] f = "station_id_1.wav" -> "station_id_1"
      [] f = "weather_1.wav" -> "weather_1"
      [] OTHER -> f

\* clean_name(filepath, is_segment): the friendly name of the first key of
\* segment_types contained in the stem, else "Transmission"; the stem itself
\* for music and podcasts
CleanName(f, is_segment) ==
    IF is_segment
    THEN IF f \in RootSegments THEN "WVOID-FM"
         ELSE IF f \in Dedications THEN "For the Night Owls"
         ELSE IF f \in PeriodSegments THEN "Conditions Unknown"
         ELSE "Transmission"
    ELSE Stem(f)

\* "listener_dedication" in seg.name.lower() or "listener_" in seg.name.lower()
IsListenerDedication(f) == f \in Dedications

\* st_mtime of a segment file
Mtime(f) == IF f \in Dedications THEN 1 ELSE 0

\* dedications.sort(key=st_mtime, reverse=True)[0]
Newest(D) == CHOOSE d \in D : \A e \in D : Mtime(e) <= Mtime(d)

\* select_segment(SEGMENTS_DIR): the directory looked at
SegmentPool == IF period_files # {} THEN period_files ELSE seg_files

\* select_segment: the files it may return ({} stands for None)
SelectSegmentChoices ==
    LET segments == SegmentPool
        dedications == segments \cap Dedications
        available == {f \in segments : SegmentType(f) # last_segment_type}
    IN  IF segments = {} THEN {}
        ELSE IF dedications # {} /\ last_segment_type # "listener_dedication"
        THEN {Newest(dedications)}
        ELSE IF available # {} THEN available ELSE segments

NoDoc == [track |-> "", type |-> "", vibe |-> "", time_period |-> "",
          show_id |-> "", show |-> ""]

\* update_now_playing(track, track_type, vibe, time_period, show_id, show_name)
\* as run() calls it: (name, type, vibe, ctx.show_id, ctx.show_name), the
\* last two landing in time_period and show_id
UpdateNowPlaying(name, track_type, vibe, c) ==
    [track |-> name, type |-> track_type, vibe |-> vibe,
     time_period |-> c, show_id |-> ShowCfg[c].show_name, show |-> ""]

NoPlay == [filepath |-> "", pcm |-> 0]

\* where run() continues after "Pipe failed, reconnecting... break"
AfterPipeFailedRespawn == "start"

AfterPipeFailed == "inner"

\* orders in which create_curated_queue may return the library
Queues == {<<"m1.mp3", "m2.mp3">>, <<"m2.mp3">>}

\* contents of the segments directory at start: <<period sub-folder, root>>
SegmentDirs == {<<{}, RootSegments>>,
                <<{}, RootSegments \cup Dedications>>,
                <<PeriodSegments, RootSegments \cup Dedications>>}

MAX_TRACK_DURATION == 150
CHUNK_MIN_DURATION == 90
CHUNK_MAX_DURATION == 150

\* the lead-in and the tail that a window is meant to leave out, in seconds
ChopMargin == 10

\* get_track_duration returned None
NoDuration == 0

StepSeconds == 10     \* grain of the values drawn for random.uniform

\* durations probed, in seconds
Durations == {NoDuration, 60, 150, 151, 155, 170, 171, 200, 260, 261, 400}

\* the values random.uniform(a, b) is drawn from: both ends, and the points
\* of the grain in between
Uniform(a, b) == {a, b} \cup {x \in a..b : x % StepSeconds = 0}

\* no track is being looked at
ChopIdle ==
    /\ track_duration = NoDuration
    /\ start_time = 0
    /\ play_duration = NoDuration
    /\ chop_pc = "chosen"

(***************************************************************************)
(* mac/watchdog.py: the supervisor of the components                       *)
(***************************************************************************)

CHECK_INTERVAL == 30
MAX_RETRIES == 3
ALERT_COOLDOWN == 300

\* time.sleep(3) of start_component and time.sleep(2) of handle_failure
RestartSeconds == 5

\* time.time() when the watchdog starts (seconds since the epoch)
WdEpoch == 1000

WdHorizon == 340    \* seconds of the watchdog's run that are followed
MaxFailures == 4    \* failed checks in a row that a component is let to have

\* COMPONENTS, in the order of the dictionary, with their "critical" entry
CompSeq == <<"icecast", "api">>
Components == {CompSeq[i] : i \in 1..Len(CompSeq)}
Critical == [c \in Components |-> c = "icecast"]

WdInit ==
    /\ failure_counts = [c \in Components |-> 0]
    /\ last_alert_time = [c \in Components |-> 0]
    /\ wd_clock = WdEpoch
    /\ wd_i = 1
    /\ wd_alerts = [c \in Components |-> <<>>]
    /\ wd_attempts = [c \in Components |-> 0]

\* the watchdog when it is not part of the specification
WdIdle ==
    /\ failure_counts = [c \in Components |-> 0]
    /\ last_alert_time = [c \in Components |-> 0]
    /\ wd_clock = 0
    /\ wd_i = 0
    /\ wd_alerts = [c \in Components |-> <<>>]
    /\ wd_attempts = [c \in Components |-> 0]

\* ~/.wvoid/history.db can be opened, read and written
HistoryOk == history_db = "ok"

\* the start-up of run() is over, with no schedule file
BootDone ==
    /\ sched_file = "absent"
    /\ station_schedule = "none"
    /\ boot_pc = "done"

NoQuery == [filepath |-> "", hours |-> 0, found |-> FALSE]

\* the plays table when it is not part of the specification
PlaysIdle ==
    /\ plays = {}
    /\ ph_now = 0
    /\ ph_tz = 0
    /\ ph_query = NoQuery

SideIdle == WdIdle /\ HistoryOk /\ BootDone /\ PlaysIdle

\* a cooldown test that lets an alert through one check after the last
CooldownOverEarly(now_t, last) == now_t - last > CHECK_INTERVAL

\* if now - last_alert_time[name] > ALERT_COOLDOWN
CooldownOver(now_t, last) == now_t - last > ALERT_COOLDOWN

\* if failure_counts[name] <= MAX_RETRIES
RetryAllowed(count) == count <= MAX_RETRIES

\* handle_failure, from "Still down after retries - send alert" on, entered
\* at time now_t with the count and the number of attempts given
AlertPart(name, now_t, count, attempts) ==
    /\ failure_counts' = [failure_counts EXCEPT ![name] = count]
    /\ wd_attempts' = [wd_attempts EXCEPT ![name] = attempts]
    /\ wd_clock' = now_t
    /\ IF CooldownOver(now_t, last_alert_time[name])
       THEN /\ wd_alerts' = [wd_alerts EXCEPT ![name] =
                    Append(@, [at |-> now_t,
                               priority |-> IF Critical[name] THEN 1 ELSE 0])]
            /\ last_alert_time' = [last_alert_time EXCEPT ![name] = now_t]
       ELSE UNCHANGED <<wd_alerts, last_alert_time>>

\* handle_failure(name, config): started is the result of start_component
\* and back that of the check made after the restart
HandleFailure(name) ==
    LET count == failure_counts[name] + 1
    IN  IF RetryAllowed(count)
        THEN \E started \in BOOLEAN :
               IF started
               THEN \E back \in BOOLEAN :
                      IF back
                      THEN /\ failure_counts' = [failure_counts EXCEPT ![name] = 0]
                           /\ wd_attempts' = [wd_attempts EXCEPT ![name] = 0]
                           /\ wd_clock' = wd_clock + RestartSeconds
                           /\ UNCHANGED <<wd_alerts, last_alert_time>>
                      ELSE AlertPart(name, wd_clock + RestartSeconds, count,
                                     wd_attempts[name] + 1)
               ELSE AlertPart(name, wd_clock, count, wd_attempts[name] + 1)
        ELSE AlertPart(name, wd_clock, count, wd_attempts[name])

\* handle_recovery(name): the RECOVERED notice is no DOWN alert
HandleRecovery(name) ==
    /\ failure_counts' = [failure_counts EXCEPT ![name] = 0]
    /\ wd_attempts' = [wd_attempts EXCEPT ![name] = 0]
    /\ UNCHANGED <<wd_clock, wd_alerts, last_alert_time>>

\* run_checks: one turn of "for name, config in COMPONENTS.items()"
WdCheck ==
    /\ wd_i \in 1..Len(CompSeq)
    /\ wd_i' = wd_i + 1
    /\ LET name == CompSeq[wd_i]
       IN  \E is_healthy \in BOOLEAN :
             IF is_healthy
             THEN HandleRecovery(name)
             ELSE /\ failure_counts[name] < MaxFailures
                  /\ HandleFailure(name)
    /\ UNCHANGED <<schedVars, npVars, msgVars, engVars, histVars, bootVars, playVars>>

\* main: time.sleep(CHECK_INTERVAL) between two calls of run_checks
WdSleep ==
    /\ wd_i = Len(CompSeq) + 1
    /\ wd_clock + CHECK_INTERVAL <= WdEpoch + WdHorizon
    /\ wd_clock' = wd_clock + CHECK_INTERVAL
    /\ wd_i' = 1
    /\ UNCHANGED <<failure_counts, last_alert_time, wd_alerts, wd_attempts>>
    /\ UNCHANGED <<schedVars, npVars, msgVars, engVars, histVars, bootVars, playVars>>

WdNext == WdCheck \/ WdSleep

\* no call of check_command is under way and nothing was written
PollIdle ==
    /\ cc_pc = "idle"
    /\ cc_cmd = ""
    /\ cc_ret = ""
    /\ cc_writes = 0

\* track_duration = get_track_duration(track); start_time = 0;
\* play_duration = track_duration
ChopInit ==
    /\ track_duration \in Durations
    /\ start_time = 0
    /\ play_duration = track_duration
    /\ chop_pc = "probed"

\* if track_duration and track_duration > MAX_TRACK_DURATION: ...
ChopTrack ==
    /\ chop_pc = "probed"
    /\ chop_pc' = "chosen"
    /\ IF track_duration # NoDuration /\ track_duration > MAX_TRACK_DURATION
       THEN \E d \in Uniform(CHUNK_MIN_DURATION, CHUNK_MAX_DURATION) :
               /\ play_duration' = d
               /\ LET max_start == track_duration - d - ChopMargin
                  IN  IF max_start > ChopMargin
                      THEN start_time' \in Uniform(ChopMargin, max_start)
                      ELSE start_time' = start_time
       ELSE UNCHANGED <<start_time, play_duration>>
    /\ UNCHANGED track_duration
    /\ UNCHANGED <<schedVars, npVars, msgVars, engCoreVars, obsVars, pollVars, sideVars>>

\* the next track of the queue is probed
ChopProbe ==
    /\ chop_pc = "chosen"
    /\ track_duration' \in Durations
    /\ start_time' = 0
    /\ play_duration' = track_duration'
    /\ chop_pc' = "probed"
    /\ UNCHANGED <<schedVars, npVars, msgVars, engCoreVars, obsVars, pollVars, sideVars>>

ChopNext == ChopTrack \/ ChopProbe

\* the module globals and the locals of run() when the process starts
EngBoot ==
    /\ pc = "start"
    /\ running = TRUE
    /\ encoder_proc = "none"
    /\ live_encoders = 0
    /\ ctx = ""
    /\ queue = <<>>
    /\ track = ""
    /\ current_slot = NoSlot
    /\ last_podcast_slot = NoSlot
    /\ force_segment = FALSE
    /\ force_podcast = FALSE
    /\ skip_current = FALSE
    /\ tracks_since_segment = 0
    /\ last_segment_type = ""
    /\ command_file = ""
    /\ \E dir \in SegmentDirs : period_files = dir[1] /\ seg_files = dir[2]
    /\ now_playing = NoDoc
    /\ site = ""
    /\ asset = ""
    /\ chunks = 0
    /\ pipe_ret = FALSE
    /\ decoder = "none"
    /\ last_play = NoPlay
    /\ ded_done = {}

\* no `segment` command waits to be served
NoCmd == -1

\* the log is not kept
ObsOff ==
    /\ audit = "off"
    /\ run_len = 0
    /\ music_n = 0
    /\ seg_n = 0
    /\ owed = FALSE
    /\ cmd_seg = NoCmd
    /\ pod_hours = {}

\* the log of music items and segments is kept, and is empty
ObsOn ==
    /\ audit = "items"
    /\ run_len = 0
    /\ music_n = 0
    /\ seg_n = 0
    /\ owed = FALSE
    /\ cmd_seg = NoCmd
    /\ pod_hours = {}

\* the log of podcasts is kept, and is empty
ObsPodcasts ==
    /\ audit = "podcasts"
    /\ run_len = 0
    /\ music_n = 0
    /\ seg_n = 0
    /\ owed = FALSE
    /\ cmd_seg = NoCmd
    /\ pod_hours = {}

EngInit ==
    /\ hour = 0
    /\ ObsOff
    /\ ChopIdle
    /\ PollIdle
    /\ EngBoot


\* the engine subsystem when it is not part of the specification
EngIdle ==
    /\ pc = "off"
    /\ running = FALSE
    /\ encoder_proc = "none"
    /\ live_encoders = 0
    /\ ctx = ""
    /\ queue = <<>>
    /\ track = ""
    /\ hour = 0
    /\ current_slot = NoSlot
    /\ last_podcast_slot = NoSlot
    /\ force_segment = FALSE
    /\ force_podcast = FALSE
    /\ skip_current = FALSE
    /\ tracks_since_segment = 0
    /\ last_segment_type = ""
    /\ command_file = ""
    /\ period_files = {}
    /\ seg_files = {}
    /\ now_playing = NoDoc
    /\ site = ""
    /\ asset = ""
    /\ chunks = 0
    /\ pipe_ret = FALSE
    /\ decoder = "none"
    /\ last_play = NoPlay
    /\ ded_done = {}
    /\ ObsOff
    /\ ChopIdle
    /\ PollIdle

otherVars == <<schedVars, npVars, msgVars, obsVars, chopVars, pollVars, sideVars>>

\* the other subsystems, which no step of the engine touches
restVars == <<schedVars, npVars, msgVars, chopVars, pollVars, sideVars>>

Commands == {"skip", "segment", "podcast", "junk"}

MaxItems == 5      \* music items a kept log counts

\* the log, when kept, takes a music item that has been streamed
ObsMusic ==
    /\ audit = "items" => music_n < MaxItems
    /\ run_len' = IF audit = "items" /\ run_len <= MaxInterval THEN run_len + 1 ELSE run_len
    /\ music_n' = IF audit = "items" THEN music_n + 1 ELSE music_n
    /\ UNCHANGED <<audit, seg_n, owed, cmd_seg, pod_hours>>

\* the log, when kept, takes a segment that has been streamed
ObsSegment ==
    /\ run_len' = IF audit = "items" THEN 0 ELSE run_len
    /\ seg_n' = IF audit = "items" THEN seg_n + 1 ELSE seg_n
    /\ owed' = FALSE
    /\ cmd_seg' = IF cmd_seg # NoCmd /\ seg_n + 1 > cmd_seg THEN NoCmd ELSE cmd_seg
    /\ UNCHANGED <<audit, music_n, pod_hours>>

\* the log, when kept, notes a `segment` command that check_command returned
ObsCommand ==
    /\ owed' = (owed \/ (audit = "items" /\ command_file = "segment" /\ command_file' = ""))
    /\ cmd_seg' = IF audit = "items" /\ command_file = "segment" /\ command_file' = ""
                  THEN seg_n + (IF site \in {"segment", "forced"} THEN 1 ELSE 0)
                  ELSE cmd_seg
    /\ UNCHANGED <<audit, run_len, music_n, seg_n, pod_hours>>

\* the log, when kept, takes a podcast that pipe_track reported as played
ObsPodcast ==
    /\ pod_hours' = IF audit = "podcasts" /\ pipe_ret THEN pod_hours \cup {hour} ELSE pod_hours
    /\ UNCHANGED <<audit, run_len, music_n, seg_n, owed, cmd_seg>>

\* signal_handler, up to sys.exit: running = False; encoder_proc.terminate()
Terminated ==
    /\ running' = FALSE
    /\ encoder_proc' = IF encoder_proc = "alive" THEN "dead" ELSE encoder_proc
    /\ live_encoders' = IF encoder_proc = "alive" THEN live_encoders - 1 ELSE live_encoders

\* history.record_play(filepath=...): the row appended for the asset of the
\* pipe_track call that just returned
\* (inside try/except Exception: pass: no row when the database fails)
RecordPlay == IF HistoryOk THEN [filepath |-> asset, pcm |-> chunks] ELSE last_play

\* a call pipe_track(f, encoder_proc, ...) from the place s of run()
CallPipeTrack(f, s) ==
    /\ asset' = f
    /\ site' = s
    /\ chunks' = 0
    /\ pc' = "pipe_enter"

\* a finally clause that leaves skip_current as it finds it
SkipKept(skip) == skip

\* finally: if skip_current: skip_current = False
SkipAfterFinally(skip) == FALSE

\* pipe_track returns ret through its finally clause; a signal that arrives
\* inside the bare try/except of the clause is handled there and its
\* SystemExit is swallowed
PipeReturnWith(ret, skip) ==
    /\ pipe_ret' = ret
    /\ decoder' = "none"
    /\ skip_current' = SkipAfterFinally(skip)
    /\ pc' = "after_" \o site
    /\ \/ UNCHANGED <<running, encoder_proc, live_encoders>>
       \/ running /\ Terminated

\* the return of a pipe_track that has not set skip_current itself
PipeReturn(ret) == PipeReturnWith(ret, skip_current)

\* the process ends: what it held in memory is gone, the files stay
ProcessEnds(final) ==
    /\ pc' = final
    /\ ctx' = ""
    /\ queue' = <<>>
    /\ track' = ""
    /\ current_slot' = NoSlot
    /\ last_podcast_slot' = NoSlot
    /\ force_segment' = FALSE
    /\ force_podcast' = FALSE
    /\ skip_current' = FALSE
    /\ tracks_since_segment' = 0
    /\ last_segment_type' = ""
    /\ site' = ""
    /\ asset' = ""
    /\ chunks' = 0
    /\ pipe_ret' = FALSE
    /\ decoder' = "none"

ProcessExit == ProcessEnds("stopped")

\* an exception leaves run(): the interpreter prints the traceback and
\* exits, and the encoder child, if any, reads the end of its stdin and ends
Crash ==
    /\ ProcessEnds("crashed")
    /\ encoder_proc' = IF encoder_proc = "alive" THEN "dead" ELSE encoder_proc
    /\ live_encoders' = IF encoder_proc = "alive" THEN live_encoders - 1 ELSE live_encoders
    /\ UNCHANGED running

\* while running: encoder_proc = start_encoder()
StartEncoder ==
    /\ pc = "start"
    /\ IF running
       THEN /\ live_encoders < MaxEncoders
            /\ encoder_proc' = "alive"
            /\ live_encoders' = live_encoders + 1
            /\ pc' = "wait_ready"
       ELSE /\ pc' = "stopping"
            /\ UNCHANGED <<encoder_proc, live_encoders>>
    /\ UNCHANGED <<running, ctx, queue, track, hour, current_slot, last_podcast_slot,
                   force_segment, force_podcast, skip_current, tracks_since_segment,
                   last_segment_type, command_file, period_files, seg_files,
                   now_playing, site, asset, chunks, pipe_ret, last_play, ded_done>>
    /\ UNCHANGED decoder
    /\ UNCHANGED otherVars

\* if not wait_for_encoder_ready(encoder_proc): sleep(10); continue
WaitForEncoderReady ==
    /\ pc = "wait_ready"
    /\ pc' = IF encoder_proc # "alive" THEN "start" ELSE "inner"
    /\ UNCHANGED <<running, encoder_proc, live_encoders, ctx, queue, track, hour,
                   current_slot, last_podcast_slot, force_segment, force_podcast,
                   skip_current, tracks_since_segment, last_segment_type,
                   command_file, period_files, seg_files, now_playing, site, asset,
                   chunks, pipe_ret, last_play, ded_done>>
    /\ UNCHANGED decoder
    /\ UNCHANGED otherVars

\* while running and encoder_proc.poll() is None: ctx, queue = ...; when the
\* condition fails: if running: "Encoder died, restarting..."
\* create_curated_queue calls history.filter_recent with no exception
\* handler, here or in run(): a failing database ends the process
CurateQueue ==
    /\ pc = "inner"
    /\ IF running /\ encoder_proc = "alive" /\ ~HistoryOk
       THEN /\ Crash
            /\ UNCHANGED <<hour, command_file, period_files, seg_files,
                           now_playing, last_play, ded_done>>
       ELSE /\ IF running /\ encoder_proc = "alive"
               THEN /\ ctx' = ShowAt(hour)
                    /\ queue' \in Queues
                    /\ pc' = "for"
               ELSE /\ pc' = IF running THEN "start" ELSE "stopping"
                    /\ UNCHANGED <<ctx, queue>>
            /\ UNCHANGED <<running, encoder_proc, live_encoders, track, hour,
                           current_slot, last_podcast_slot, force_segment,
                           force_podcast, skip_current, tracks_since_segment,
                           last_segment_type, command_file, period_files,
                           seg_files, now_playing, site, asset, chunks,
                           pipe_ret, decoder, last_play, ded_done>>
    /\ UNCHANGED otherVars

\* for track in queue: the checks at the top of the body and the podcast
\* decision, up to the call of pipe_track for the podcast (current_slot is
\* kept only on the path that reads it; a local that is no longer read is
\* put back to its initial value, here and below)
NextTrack ==
    /\ pc = "for"
    /\ IF queue = <<>>
       THEN /\ pc' = "inner"
            /\ track' = ""
            /\ UNCHANGED <<queue, current_slot, force_podcast, now_playing,
                           site, asset, chunks>>
       ELSE IF ~running \/ encoder_proc # "alive" \/ ShowAt(hour) # ctx
       THEN /\ pc' = "inner"
            /\ queue' = <<>>
            /\ track' = ""
            /\ UNCHANGED <<current_slot, force_podcast, now_playing,
                           site, asset, chunks>>
       ELSE /\ track' = Head(queue)
            /\ queue' = Tail(queue)
            /\ LET should_podcast ==
                       /\ ShowCfg[ctx].podcasts_enabled
                       /\ (hour % 24) \in PODCAST_HOURS
                       /\ last_podcast_slot # SlotOf(hour)
               IN  IF Podcasts # {} /\ (force_podcast \/ should_podcast)
                   THEN \E podcast \in Podcasts :
                           /\ now_playing' = UpdateNowPlaying(CleanName(podcast, FALSE), "podcast", "", ctx)
                           /\ force_podcast' = FALSE
                           /\ current_slot' = SlotOf(hour)
                           /\ CallPipeTrack(podcast, "podcast")
                   ELSE /\ pc' = "forced"
                        /\ UNCHANGED <<current_slot, force_podcast, now_playing,
                                       site, asset, chunks>>
    /\ UNCHANGED <<running, encoder_proc, live_encoders, ctx, hour, last_podcast_slot,
                   force_segment, skip_current, tracks_since_segment,
                   last_segment_type, command_file, period_files, seg_files,
                   pipe_ret, last_play, ded_done>>
    /\ UNCHANGED decoder
    /\ UNCHANGED otherVars

\* if pipe_track(podcast, ...): last_podcast_slot = current_slot; record_play
AfterPodcast ==
    /\ pc = "after_podcast"
    /\ IF pipe_ret
       THEN /\ last_podcast_slot' = current_slot
            /\ last_play' = RecordPlay
       ELSE UNCHANGED <<last_podcast_slot, last_play>>
    /\ pc' = "forced"
    /\ asset' = ""
    /\ chunks' = 0
    /\ current_slot' = NoSlot
    /\ site' = ""
    /\ pipe_ret' = FALSE
    /\ UNCHANGED <<running, encoder_proc, live_encoders, ctx, queue, track, hour,
                   force_segment, force_podcast, skip_current,
                   tracks_since_segment, last_segment_type, command_file,
                   period_files, seg_files, now_playing, ded_done>>
    /\ ObsPodcast
    /\ UNCHANGED decoder
    /\ UNCHANGED restVars

\* if force_segment: seg = select_segment(SEGMENTS_DIR); if seg: pipe_track(seg)
ForcedSegment ==
    /\ pc = "forced"
    /\ IF force_segment /\ SelectSegmentChoices # {}
       THEN /\ \E seg \in SelectSegmentChoices :
                   /\ last_segment_type' = SegmentType(seg)
                   /\ CallPipeTrack(seg, "forced")
            /\ UNCHANGED force_segment
       ELSE /\ force_segment' = FALSE
            /\ pc' = "music"
            /\ UNCHANGED <<last_segment_type, site, asset, chunks>>
    /\ UNCHANGED <<running, encoder_proc, live_encoders, ctx, queue, track, hour,
                   current_slot, last_podcast_slot, force_podcast, skip_current,
                   tracks_since_segment, command_file, period_files, seg_files,
                   now_playing, pipe_ret, last_play, ded_done>>
    /\ UNCHANGED decoder
    /\ UNCHANGED otherVars

\* the forced pipe_track has returned (its result is not looked at):
\* force_segment = False
AfterForcedSegment ==
    /\ pc = "after_forced"
    /\ force_segment' = FALSE
    /\ pc' = "music"
    /\ asset' = ""
    /\ chunks' = 0
    /\ site' = ""
    /\ pipe_ret' = FALSE
    /\ UNCHANGED <<running, encoder_proc, live_encoders, ctx, queue, track, hour,
                   current_slot, last_podcast_slot, force_podcast, skip_current,
                   tracks_since_segment, last_segment_type, command_file,
                   period_files, seg_files, now_playing, last_play, ded_done>>
    /\ ObsSegment
    /\ UNCHANGED decoder
    /\ UNCHANGED restVars

\* update_now_playing(name, "music", ...); pipe_track(track, ...)
PlayTrack ==
    /\ pc = "music"
    /\ now_playing' = UpdateNowPlaying(CleanName(track, FALSE), "music", "vibe", ctx)
    /\ CallPipeTrack(track, "music")
    /\ UNCHANGED <<running, encoder_proc, live_encoders, ctx, queue, track, hour,
                   current_slot, last_podcast_slot, force_segment, force_podcast,
                   skip_current, tracks_since_segment, last_segment_type,
                   command_file, period_files, seg_files, pipe_ret, last_play,
                   ded_done>>
    /\ UNCHANGED decoder
    /\ UNCHANGED otherVars

\* a cadence check that does not look at the force flag
SegmentDueCadenceOnly(count, segment_interval) == count >= segment_interval

\* a cadence check that lets one track too many pass
SegmentDueLate(count, segment_interval) == force_segment \/ count > segment_interval

\* if force_segment or tracks_since_segment >= segment_interval
SegmentDue(count, segment_interval) == force_segment \/ count >= segment_interval

\* pipe_track returned to the music call: break on False, else record_play,
\* tracks_since_segment += 1 and the segment of the show's cadence, up to
\* the call of pipe_track for it
AfterTrack ==
    /\ pc = "after_music"
    /\ IF ~pipe_ret
       THEN /\ pc' = AfterPipeFailed
            /\ queue' = <<>>
            /\ track' = ""
            /\ asset' = ""
            /\ chunks' = 0
            /\ site' = ""
            /\ UNCHANGED <<last_play, tracks_since_segment, last_segment_type,
                           now_playing>>
            /\ UNCHANGED obsVars
       ELSE /\ ObsMusic
            /\ last_play' = RecordPlay
            /\ tracks_since_segment' =
                   IF tracks_since_segment < MaxInterval
                   THEN tracks_since_segment + 1 ELSE tracks_since_segment
            /\ IF /\ SegmentDue(tracks_since_segment', ShowCfg[ctx].segment_after_tracks)
                  /\ SelectSegmentChoices # {}
               THEN \E seg \in SelectSegmentChoices :
                       /\ last_segment_type' = SegmentType(seg)
                       /\ now_playing' = UpdateNowPlaying(CleanName(seg, TRUE), "segment", "", ctx)
                       /\ CallPipeTrack(seg, "segment")
               ELSE /\ pc' = "for"
                    /\ asset' = ""
                    /\ chunks' = 0
                    /\ site' = ""
                    /\ UNCHANGED <<last_segment_type, now_playing>>
            /\ UNCHANGED <<queue, track>>
    /\ pipe_ret' = FALSE
    /\ UNCHANGED <<running, encoder_proc, live_encoders, ctx, hour,
                   current_slot, last_podcast_slot, force_segment, force_podcast,
                   skip_current, command_file, period_files, seg_files, ded_done>>
    /\ UNCHANGED decoder
    /\ UNCHANGED restVars

\* pipe_track returned to the cadence segment call: break on False, else
\* unlink a listener dedication, tracks_since_segment = 0, force_segment = False
AfterSegment ==
    /\ pc = "after_segment"
    /\ IF ~pipe_ret
       THEN /\ pc' = AfterPipeFailed
            /\ queue' = <<>>
            /\ track' = ""
            /\ UNCHANGED <<seg_files, tracks_since_segment, force_segment>>
            /\ UNCHANGED obsVars
       ELSE /\ seg_files' = IF IsListenerDedication(asset)
                            THEN seg_files \ {asset} ELSE seg_files
            /\ tracks_since_segment' = 0
            /\ ObsSegment
            /\ force_segment' = FALSE
            /\ pc' = "for"
            /\ UNCHANGED <<queue, track>>
    /\ asset' = ""
    /\ chunks' = 0
    /\ site' = ""
    /\ pipe_ret' = FALSE
    /\ UNCHANGED <<running, encoder_proc, live_encoders, ctx, hour,
                   current_slot, last_podcast_slot, force_podcast, skip_current,
                   last_segment_type, command_file, period_files, now_playing,
                   last_play, ded_done>>
    /\ UNCHANGED decoder
    /\ UNCHANGED restVars

\* pipe_track: the check at entry and decode_to_pcm, which may raise
PipeEnter ==
    /\ pc = "pipe_enter"
    /\ \/ /\ ~running \/ encoder_proc # "alive"
          /\ pipe_ret' = FALSE
          /\ pc' = "after_" \o site
          /\ UNCHANGED <<running, encoder_proc, live_encoders, skip_current,
                         decoder>>
       \/ /\ running /\ encoder_proc = "alive"
          /\ \/ /\ pc' = "pipe_loop"
                /\ decoder' = "running"
                /\ UNCHANGED <<running, encoder_proc, live_encoders, skip_current,
                               pipe_ret>>
             \/ PipeReturn(FALSE)
    /\ UNCHANGED <<ctx, queue, track, hour, current_slot, last_podcast_slot,
                   force_segment, force_podcast, tracks_since_segment,
                   last_segment_type, command_file, period_files, seg_files,
                   now_playing, site, asset, chunks, last_play, ded_done>>
    /\ UNCHANGED otherVars

\* check_command: the stripped content of command.txt; the file
\* is truncated when the content is not empty
CheckCommand == command_file

\* a check_command that returns the payload and leaves it in the file
CommandFileKept(content) == content

\* COMMAND_FILE.write_text("") when the stripped content was not empty
CommandFileAfterCheck(content) == IF content # "" THEN "" ELSE content

\* one iteration of the loop of pipe_track: read a chunk, write it to the
\* encoder, check_command
PipeChunk ==
    /\ pc = "pipe_loop"
    /\ \/ \* while running and not skip_current: the condition is false
          /\ ~running \/ skip_current
          /\ pipe_ret' = TRUE
          /\ decoder' = "none"
          /\ skip_current' = SkipAfterFinally(skip_current)
          /\ pc' = "after_" \o site
          /\ UNCHANGED <<running, encoder_proc, live_encoders,
                         chunks, command_file, force_segment, ded_done>>
       \/ \* the decoder's output has ended
          /\ running /\ ~skip_current
          /\ ded_done' = IF IsListenerDedication(asset) /\ chunks > 0
                         THEN ded_done \cup {asset} ELSE ded_done
          /\ PipeReturn(TRUE)
          /\ UNCHANGED <<chunks, command_file, force_segment>>
       \/ \* a chunk was read and the encoder's stdin is closed: BrokenPipeError
          \* (a failed write adds nothing to chunks, so it needs no cap)
          /\ running /\ ~skip_current
          /\ encoder_proc # "alive"
          /\ PipeReturn(FALSE)
          /\ UNCHANGED <<chunks, command_file, force_segment, ded_done>>
       \/ \* a chunk was read and written
          /\ running /\ ~skip_current
          /\ chunks < MaxChunks
          /\ encoder_proc = "alive"
          /\ chunks' = chunks + 1
          /\ command_file' = CommandFileAfterCheck(command_file)
          /\ IF CheckCommand = "skip"
             THEN /\ PipeReturnWith(TRUE, TRUE)
                  /\ UNCHANGED force_segment
             ELSE /\ force_segment' = (force_segment \/ CheckCommand = "segment")
                  /\ UNCHANGED <<running, encoder_proc, live_encoders, skip_current,
                                 pipe_ret, decoder, pc>>
          /\ UNCHANGED ded_done
    /\ UNCHANGED <<ctx, queue, track, hour, current_slot, last_podcast_slot,
                   force_podcast, tracks_since_segment, last_segment_type,
                   period_files, seg_files, now_playing, site, asset, last_play>>
    /\ ObsCommand
    /\ UNCHANGED restVars

EngineLive == pc \notin {"stopped", "crashed", "off"}

\* the encoder child exits (Icecast drops the connection, ffmpeg fails)
EncoderDies ==
    /\ EngineLive
    /\ encoder_proc = "alive"
    /\ encoder_proc' = "dead"
    /\ live_encoders' = live_encoders - 1
    /\ UNCHANGED <<pc, running, ctx, queue, track, hour, current_slot,
                   last_podcast_slot, force_segment, force_podcast, skip_current,
                   tracks_since_segment, last_segment_type, command_file,
                   period_files, seg_files, now_playing, site, asset, chunks,
                   pipe_ret, last_play, ded_done>>
    /\ UNCHANGED decoder
    /\ UNCHANGED otherVars

\* SIGTERM or SIGINT: signal_handler, whose sys.exit(0) ends the process
SignalHandler ==
    /\ EngineLive
    /\ running
    /\ Terminated
    /\ ProcessExit
    /\ UNCHANGED <<hour, command_file, period_files, seg_files, now_playing,
                   last_play, ded_done>>
    /\ UNCHANGED otherVars

\* run() leaves its outer loop: "=== Stream stopped ==="
StreamStopped ==
    /\ pc = "stopping"
    /\ ProcessExit
    /\ UNCHANGED <<running, encoder_proc, live_encoders, hour, command_file,
                   period_files, seg_files, now_playing, last_play, ded_done>>
    /\ UNCHANGED otherVars

\* ---- check_command() and the writers of command.txt, step by step ----

MaxWrites == 3      \* writes to command.txt that operators make

\* the engine's variables but for command.txt
engNoFileVars == <<pc, running, encoder_proc, live_encoders, ctx, queue, track, hour,
                   current_slot, last_podcast_slot, force_segment, force_podcast,
                   skip_current, tracks_since_segment, last_segment_type,
                   period_files, seg_files, now_playing, site, asset, chunks,
                   pipe_ret, decoder, last_play, ded_done>>

\* an operator or the API replaces the content of command.txt, at any moment
OperatorWrite ==
    /\ cc_writes < MaxWrites
    /\ cc_writes' = cc_writes + 1
    /\ \E c \in Commands : command_file' = c
    /\ UNCHANGED <<cc_pc, cc_cmd, cc_ret>>
    /\ UNCHANGED <<schedVars, npVars, msgVars, engNoFileVars, obsVars, chopVars, sideVars>>

\* if COMMAND_FILE.exists() and (cmd := COMMAND_FILE.read_text().strip()):
\* and, when the condition fails, return None
CheckRead ==
    /\ cc_pc = "idle"
    /\ IF command_file = ""
       THEN /\ cc_ret' = ""
            /\ UNCHANGED <<cc_pc, cc_cmd>>
       ELSE /\ cc_cmd' = command_file
            /\ cc_pc' = "read"
            /\ UNCHANGED cc_ret
    /\ UNCHANGED <<command_file, cc_writes>>
    /\ UNCHANGED <<schedVars, npVars, msgVars, engNoFileVars, obsVars, chopVars, sideVars>>

\* COMMAND_FILE.write_text(""); return cmd
CheckTruncate ==
    /\ cc_pc = "read"
    /\ command_file' = ""
    /\ cc_ret' = cc_cmd
    /\ cc_cmd' = ""
    /\ cc_pc' = "idle"
    /\ UNCHANGED cc_writes
    /\ UNCHANGED <<schedVars, npVars, msgVars, engNoFileVars, obsVars, chopVars, sideVars>>

PollNext == OperatorWrite \/ CheckRead \/ CheckTruncate

\* an operator writes a line to command.txt.  The file is read only by the
\* loop of pipe_track and a later write replaces an earlier one, so a write
\* at any other moment is this one, made just before the next read
WriteCommand ==
    /\ pc = "pipe_loop"
    /\ command_file = ""
    /\ \E c \in Commands : command_file' = c
    /\ UNCHANGED <<pc, running, encoder_proc, live_encoders, ctx, queue, track, hour,
                   current_slot, last_podcast_slot, force_segment, force_podcast,
                   skip_current, tracks_since_segment, last_segment_type,
                   period_files, seg_files, now_playing, site, asset, chunks,
                   pipe_ret, last_play, ded_done>>
    /\ UNCHANGED decoder
    /\ UNCHANGED otherVars

\* the first instant of H after the current hour, the current hour if none
NextHour(H) ==
    IF \E h \in H : h > hour
    THEN CHOOSE h \in H : h > hour /\ \A g \in H : g > hour => h <= g
    ELSE hour

\* the wall clock reaches the next instant.  run() reads the clock at the
\* top of its two loops only, so time that passes elsewhere is this step,
\* taken just before the next read
ClockTick ==
    /\ pc \in {"inner", "for"}
    /\ hour' = NextHour(Hours)
    /\ hour' # hour
    /\ UNCHANGED <<pc, running, encoder_proc, live_encoders, ctx, queue, track,
                   current_slot, last_podcast_slot, force_segment, force_podcast,
                   skip_current, tracks_since_segment, last_segment_type,
                   command_file, period_files, seg_files, now_playing, site, asset,
                   chunks, pipe_ret, last_play, ded_done>>
    /\ UNCHANGED decoder
    /\ UNCHANGED otherVars

EngNext ==
    \/ StartEncoder
    \/ WaitForEncoderReady
    \/ CurateQueue
    \/ NextTrack
    \/ AfterPodcast
    \/ ForcedSegment
    \/ AfterForcedSegment
    \/ PlayTrack
    \/ AfterTrack
    \/ AfterSegment
    \/ PipeEnter
    \/ PipeChunk
    \/ EncoderDies
    \/ SignalHandler
    \/ StreamStopped
    \/ WriteCommand
    \/ ClockTick

(***************************************************************************)
(* Specifications                                                          *)
(***************************************************************************)

InitSched == SchedInit /\ NpInit /\ MsgInit /\ EngIdle /\ SideIdle

SpecSched == InitSched /\ [][SchedNext]_vars

InitOther == SchedIdle /\ NpInit /\ MsgInit /\ EngIdle /\ SideIdle

SpecNowPlaying == InitOther /\ [][NpNext]_vars

SpecMessages == InitOther /\ [][MsgNext]_vars

InitEngine == SchedIdle /\ NpInit /\ MsgInit /\ EngInit /\ SideIdle

SpecEngine == InitEngine /\ [][EngNext]_vars

\* the engine with the log kept, in the hour of one of the three shows
InitAudit ==
    SchedIdle /\ NpInit /\ MsgInit /\ EngBoot /\ ObsOn /\ ChopIdle /\ PollIdle /\ SideIdle
    /\ hour \in {0, 3, 5}

\* a step without a failure and within one show: the encoder stays up, no
\* signal arrives, every decoder starts, nobody writes `segment` to
\* command.txt and the clock stays inside the hours of the current show
FaultFree ==
    /\ encoder_proc' # "dead"
    /\ running'
    /\ command_file' # "segment"
    /\ pc = "pipe_enter" => pc' = "pipe_loop"
    /\ ShowAt(hour') = ShowAt(hour)

CadenceNext ==
    \/ StartEncoder /\ FaultFree
    \/ WaitForEncoderReady /\ FaultFree
    \/ CurateQueue /\ FaultFree
    \/ NextTrack /\ FaultFree
    \/ AfterPodcast /\ FaultFree
    \/ ForcedSegment /\ FaultFree
    \/ PlayTrack /\ FaultFree
    \/ AfterTrack /\ FaultFree
    \/ AfterSegment /\ FaultFree
    \/ PipeEnter /\ FaultFree
    \/ PipeChunk /\ FaultFree
    \/ WriteCommand /\ FaultFree
    \/ ClockTick /\ FaultFree

SpecCadence == InitAudit /\ [][CadenceNext]_vars

\* a step without a failure and within one show, in which `segment` may be
\* written to command.txt while a music track is being piped
FaultFreeForced ==
    /\ encoder_proc' # "dead"
    /\ running'
    /\ command_file' = "segment" => site = "music"
    /\ pc = "pipe_enter" => pc' = "pipe_loop"
    /\ ShowAt(hour') = ShowAt(hour)

ForcedNext ==
    \/ StartEncoder /\ FaultFreeForced
    \/ WaitForEncoderReady /\ FaultFreeForced
    \/ CurateQueue /\ FaultFreeForced
    \/ NextTrack /\ FaultFreeForced
    \/ AfterPodcast /\ FaultFreeForced
    \/ ForcedSegment /\ FaultFreeForced
    \/ PlayTrack /\ FaultFreeForced
    \/ AfterTrack /\ FaultFreeForced
    \/ AfterSegment /\ FaultFreeForced
    \/ PipeEnter /\ FaultFreeForced
    \/ PipeChunk /\ FaultFreeForced
    \/ WriteCommand /\ FaultFreeForced
    \/ ClockTick /\ FaultFreeForced

\* the hours of a longer day: shows A (0, 1), B (3), C (5, 6)
LongHours == Hours \cup {5, 6}

\* the wall clock of the longer day reaches the next instant
LongClockTick ==
    /\ pc \in {"inner", "for"}
    /\ hour' = NextHour(LongHours)
    /\ hour' # hour
    /\ UNCHANGED <<pc, running, encoder_proc, live_encoders, ctx, queue, track,
                   current_slot, last_podcast_slot, force_segment, force_podcast,
                   skip_current, tracks_since_segment, last_segment_type,
                   command_file, period_files, seg_files, now_playing, site, asset,
                   chunks, pipe_ret, last_play, ded_done>>
    /\ UNCHANGED decoder
    /\ UNCHANGED otherVars

\* the engine with the log kept, at the start of the longer day
InitDay ==
    /\ SchedIdle /\ NpInit /\ MsgInit /\ EngBoot /\ ObsPodcasts /\ ChopIdle /\ PollIdle /\ SideIdle
    /\ hour = 0
    /\ period_files = {}
    /\ seg_files = RootSegments

\* a step that leaves the encoder and the process up
StaysUp == encoder_proc' # "dead" /\ running'

DayNext ==
    \/ StartEncoder /\ StaysUp
    \/ WaitForEncoderReady /\ StaysUp
    \/ CurateQueue /\ StaysUp
    \/ NextTrack /\ StaysUp
    \/ AfterPodcast /\ StaysUp
    \/ ForcedSegment /\ StaysUp
    \/ AfterForcedSegment /\ StaysUp
    \/ PlayTrack /\ StaysUp
    \/ AfterTrack /\ StaysUp
    \/ AfterSegment /\ StaysUp
    \/ PipeEnter /\ StaysUp
    \/ PipeChunk /\ StaysUp
    \/ WriteCommand /\ StaysUp
    \/ LongClockTick /\ StaysUp

SpecDay == InitDay /\ [][DayNext]_vars

SpecForced == InitAudit /\ [][ForcedNext]_vars

\* a step without a failure and within one show, in which `segment` may be
\* written to command.txt at any time
FaultFreeAnyTime ==
    /\ encoder_proc' # "dead"
    /\ running'
    /\ command_file' \in {"", "segment"}
    /\ pc = "pipe_enter" => pc' = "pipe_loop"
    /\ ShowAt(hour') = ShowAt(hour)

AnyTimeNext ==
    \/ StartEncoder /\ FaultFreeAnyTime
    \/ WaitForEncoderReady /\ FaultFreeAnyTime
    \/ CurateQueue /\ FaultFreeAnyTime
    \/ NextTrack /\ FaultFreeAnyTime
    \/ AfterPodcast /\ FaultFreeAnyTime
    \/ ForcedSegment /\ FaultFreeAnyTime
    \/ AfterForcedSegment /\ FaultFreeAnyTime
    \/ PlayTrack /\ FaultFreeAnyTime
    \/ AfterTrack /\ FaultFreeAnyTime
    \/ AfterSegment /\ FaultFreeAnyTime
    \/ PipeEnter /\ FaultFreeAnyTime
    \/ PipeChunk /\ FaultFreeAnyTime
    \/ WriteCommand /\ FaultFreeAnyTime
    \/ ClockTick /\ FaultFreeAnyTime

SpecAnyTime == InitAudit /\ [][AnyTimeNext]_vars

\* the engine at rest but for the choice of a track's window
ChopStart ==
    /\ pc = "off"
    /\ running = FALSE
    /\ encoder_proc = "none"
    /\ live_encoders = 0
    /\ ctx = ""
    /\ queue = <<>>
    /\ track = ""
    /\ hour = 0
    /\ current_slot = NoSlot
    /\ last_podcast_slot = NoSlot
    /\ force_segment = FALSE
    /\ force_podcast = FALSE
    /\ skip_current = FALSE
    /\ tracks_since_segment = 0
    /\ last_segment_type = ""
    /\ command_file = ""
    /\ period_files = {}
    /\ seg_files = {}
    /\ now_playing = NoDoc
    /\ site = ""
    /\ asset = ""
    /\ chunks = 0
    /\ pipe_ret = FALSE
    /\ decoder = "none"
    /\ last_play = NoPlay
    /\ ded_done = {}
    /\ ObsOff
    /\ ChopInit
    /\ PollIdle

InitChop == SchedIdle /\ NpInit /\ MsgInit /\ ChopStart /\ SideIdle

\* the engine whose only failure is the encoder killed in the middle of an
\* asset, after PCM of it was written: no signal arrives and every decoder
\* starts
KilledMidAsset ==
    /\ running'
    /\ (encoder_proc = "alive" /\ encoder_proc' = "dead")
           => (pc = "pipe_loop" /\ chunks > 0)
    /\ (pc = "pipe_enter" /\ encoder_proc = "alive") => pc' = "pipe_loop"

RespawnNext ==
    \/ StartEncoder /\ KilledMidAsset
    \/ WaitForEncoderReady /\ KilledMidAsset
    \/ CurateQueue /\ KilledMidAsset
    \/ NextTrack /\ KilledMidAsset
    \/ AfterPodcast /\ KilledMidAsset
    \/ ForcedSegment /\ KilledMidAsset
    \/ AfterForcedSegment /\ KilledMidAsset
    \/ PlayTrack /\ KilledMidAsset
    \/ AfterTrack /\ KilledMidAsset
    \/ AfterSegment /\ KilledMidAsset
    \/ PipeEnter /\ KilledMidAsset
    \/ PipeChunk /\ KilledMidAsset
    \/ EncoderDies /\ KilledMidAsset
    \/ WriteCommand /\ KilledMidAsset
    \/ ClockTick /\ KilledMidAsset

SpecRespawn == InitEngine /\ [][RespawnNext]_vars

SpecChop == InitChop /\ [][ChopNext]_vars

\* the engine at rest but for its polls of command.txt
InitPoll == SchedIdle /\ NpInit /\ MsgInit /\ EngIdle /\ SideIdle

SpecPoll == InitPoll /\ [][PollNext]_vars

\* sqlite3 starts to raise (database locked, disk full, file damaged) or
\* works again
HistoryBreaks ==
    /\ EngineLive
    /\ history_db' = IF HistoryOk THEN "failing" ELSE "ok"
    /\ UNCHANGED <<schedVars, npVars, msgVars, engVars, wdVars, bootVars, playVars>>

\* a step of the engine whose only failure is the play history: the encoder
\* stays up while the process lives, no signal arrives, every decoder starts
HistoryOnly ==
    /\ running'
    /\ (encoder_proc = "alive" /\ encoder_proc' = "dead") => pc' = "crashed"
    /\ pc = "pipe_enter" => pc' = "pipe_loop"

HistoryNext ==
    \/ StartEncoder /\ HistoryOnly
    \/ WaitForEncoderReady /\ HistoryOnly
    \/ CurateQueue /\ HistoryOnly
    \/ NextTrack /\ HistoryOnly
    \/ AfterPodcast /\ HistoryOnly
    \/ ForcedSegment /\ HistoryOnly
    \/ AfterForcedSegment /\ HistoryOnly
    \/ PlayTrack /\ HistoryOnly
    \/ AfterTrack /\ HistoryOnly
    \/ AfterSegment /\ HistoryOnly
    \/ PipeEnter /\ HistoryOnly
    \/ PipeChunk /\ HistoryOnly
    \/ WriteCommand /\ HistoryOnly
    \/ ClockTick /\ HistoryOnly
    \/ HistoryBreaks

SpecHistory == InitEngine /\ [][HistoryNext]_vars

\* run(): station_schedule = load_schedule(SCHEDULE_PATH) when
\* the file exists; an exception of load_schedule is logged ("Schedule load
\* failed, using fallback") and run() goes on
StartupLoad ==
    /\ boot_pc = "loading"
    /\ station_schedule' = IF sched_file = "valid" THEN "loaded" ELSE "none"
    /\ boot_pc' = "done"
    /\ UNCHANGED sched_file
    /\ UNCHANGED <<schedVars, npVars, msgVars, engVars, wdVars, histVars, playVars>>

\* the engine process is started with any of the three states of the file
InitStartup ==
    /\ SchedIdle /\ NpInit /\ MsgInit /\ EngInit /\ WdIdle /\ HistoryOk
    /\ PlaysIdle
    /\ sched_file \in {"absent", "valid", "invalid"}
    /\ station_schedule = "none"
    /\ boot_pc = "loading"

\* a step of the main loop, which the start-up precedes, without a failure
AfterStartup == boot_pc = "done" /\ encoder_proc' # "dead" /\ running'

StartupNext ==
    \/ StartupLoad
    \/ StartEncoder /\ AfterStartup
    \/ WaitForEncoderReady /\ AfterStartup
    \/ CurateQueue /\ AfterStartup
    \/ NextTrack /\ AfterStartup
    \/ AfterPodcast /\ AfterStartup
    \/ ForcedSegment /\ AfterStartup
    \/ PlayTrack /\ AfterStartup
    \/ AfterTrack /\ AfterStartup
    \/ AfterSegment /\ AfterStartup
    \/ PipeEnter /\ AfterStartup
    \/ PipeChunk /\ AfterStartup
    \/ ClockTick /\ AfterStartup

SpecStartup == InitStartup /\ [][StartupNext]_vars

(***************************************************************************)
(* mac/play_history.py: the plays table and was_played_recently            *)
(***************************************************************************)

HoursPerDay == 24

PhEpoch == 48       \* the instant at which the table is created, in hours
PhHorizon == 27     \* hours of the table's life that are followed
PhStep == 3         \* hours between two instants at which something happens
MaxPlays == 2       \* rows that the table is let to hold

PlayPaths == {"a.mp3", "b.mp3"}

\* was_played_recently(filepath, hours): the default and the value of
\* create_curated_queue's "recent_hours"
WindowHours == {6, 24}

\* the code points of ' ' and of 'T'
SpaceChar == 32
TChar == 84

\* A timestamp text, read from the left: the date "YYYY-MM-DD" (whose order
\* as text is the order of the days), the separator character, the time of
\* day "HH:MM:SS" (whose order as text is the order of the times) and 1 if a
\* fraction ".ffffff" follows, 0 if the text ends there.

\* played_at TIMESTAMP DEFAULT CURRENT_TIMESTAMP: "YYYY-MM-DD HH:MM:SS" of
\* the instant in UTC
SqliteText(t) == <<t \div HoursPerDay, SpaceChar, t % HoursPerDay, 0>>

\* datetime.isoformat() of a naive local time: "YYYY-MM-DDTHH:MM:SS", with
\* ".ffffff" unless the microsecond is 0
IsoFormat(t, frac) == <<t \div HoursPerDay, TChar, t % HoursPerDay, frac>>

\* SQLite's comparison of two TEXT values (BINARY collation: memcmp)
TextGreater(a, b) ==
    \E i \in 1..Len(a) :
        /\ a[i] > b[i]
        /\ \A j \in 1..(i - 1) : a[j] = b[j]

\* record_play: INSERT INTO plays, played_at left to its default
PhRecordPlay ==
    /\ Cardinality(plays) < MaxPlays
    /\ \E f \in PlayPaths :
         plays' = plays \cup {[filepath |-> f, played_at |-> SqliteText(ph_now),
                               at |-> ph_now]}
    /\ ph_query' = NoQuery
    /\ UNCHANGED <<ph_now, ph_tz>>
    /\ UNCHANGED <<schedVars, npVars, msgVars, engVars, wdVars, histVars, bootVars>>

\* was_played_recently(filepath, hours): cutoff = datetime.now() -
\* timedelta(hours), SELECT COUNT(*) ... WHERE filepath = ? AND played_at > ?
\* with cutoff.isoformat(), return count > 0
WasPlayedRecently ==
    /\ \E f \in PlayPaths, hours \in WindowHours, frac \in {0, 1} :
         LET cutoff == IsoFormat(ph_now + ph_tz - hours, frac)
             count == Cardinality({r \in plays : /\ r.filepath = f
                                                  /\ TextGreater(r.played_at, cutoff)})
         IN  ph_query' = [filepath |-> f, hours |-> hours, found |-> count > 0]
    /\ UNCHANGED <<plays, ph_now, ph_tz>>
    /\ UNCHANGED <<schedVars, npVars, msgVars, engVars, wdVars, histVars, bootVars>>

\* time passes
PhTick ==
    /\ ph_now + PhStep <= PhEpoch + PhHorizon
    /\ ph_now' = ph_now + PhStep
    /\ ph_query' = NoQuery
    /\ UNCHANGED <<plays, ph_tz>>
    /\ UNCHANGED <<schedVars, npVars, msgVars, engVars, wdVars, histVars, bootVars>>

PlaysNext == PhRecordPlay \/ WasPlayedRecently \/ PhTick

\* the table alone, on a host in UTC, west of it or east of it
InitPlays ==
    /\ SchedIdle /\ NpInit /\ MsgInit /\ EngIdle /\ WdIdle /\ HistoryOk /\ BootDone
    /\ plays = {}
    /\ ph_now = PhEpoch
    /\ ph_tz \in {0, -5, 2}
    /\ ph_query = NoQuery

SpecPlays == InitPlays /\ [][PlaysNext]_vars

\* the watchdog alone
InitWatchdog == SchedIdle /\ NpInit /\ MsgInit /\ EngIdle /\ WdInit /\ HistoryOk /\ BootDone /\ PlaysIdle

SpecWatchdog == InitWatchdog /\ [][WdNext]_vars

InitStore == SchedIdle /\ NpInit /\ StoreInit /\ EngIdle /\ SideIdle

SpecStore == InitStore /\ [][StoreNext]_vars

\* the same file, rewritten by the dedication processor as well
SpecRewriters == InitStore /\ [][RewritersNext]_vars

(***************************************************************************)
(* Claims about the schedule resolver                                      *)
(***************************************************************************)

\* What "block b covers minute m" means for a block that has an expansion.
CoversMinute(b, m) ==
    \/ b.start_minute < b.end_minute /\ b.start_minute <= m /\ m < b.end_minute
    \/ b.start_minute > b.end_minute /\ (m >= b.start_minute \/ m < b.end_minute)

ParsedBase == [i \in DOMAIN base_raw |-> ParseBlock(base_raw[i], FALSE)]

\* every minute of the day lies in exactly one base block's expansion
ExactCover(base) ==
    /\ base # <<>>
    /\ \A i \in DOMAIN base : base[i].start_minute # base[i].end_minute
    /\ \A m \in Minutes : Cardinality({i \in DOMAIN base : CoversMinute(base[i], m)}) = 1

\* the rest of the file (overrides) parses and names known shows
OverridesWellFormed ==
    \A i \in DOMAIN overrides_raw :
        LET o == ParseBlock(overrides_raw[i], TRUE)
        IN  ~BlockParseFails(o) /\ o.show_id \in Shows

S1Night1 == [start |-> <<0, 0>>,  end |-> <<6, 0>>,  show |-> "night"]
S1Day    == [start |-> <<6, 0>>,  end |-> <<21, 0>>, show |-> "day"]
S1Night2 == [start |-> <<21, 0>>, end |-> <<0, 0>>,  show |-> "night"]

\* C1: a base list is accepted exactly when every minute of the day is covered
\* by exactly one base block; in an accepted schedule exactly one base block
\* matches() every minute; a gap is reported with the first uncovered minute
\* (06:00 when the 06:00-21:00 block is removed from the three-block day).
C1_TotalCoverage ==
    \* resolve leaves the outcome of the load unchanged: state it of the load
    (sched_status # "unloaded" /\ resolved = "") =>
    /\ OverridesWellFormed => ((sched_status = "ok") <=> ExactCover(ParsedBase))
    /\ sched_status = "ok" =>
          \A d \in Days, m \in Minutes :
             Cardinality({i \in DOMAIN schedule.base :
                 Matches(schedule.base[i], [day |-> d, minute |-> m])}) = 1
    /\ (sched_status = "error" /\ sched_error = "gap") =>
          /\ sched_gap \in Minutes
          /\ \A i \in DOMAIN ParsedBase : ~CoversMinute(ParsedBase[i], sched_gap)
          /\ \A k \in 0..(sched_gap - 1) :
                \E i \in DOMAIN ParsedBase : CoversMinute(ParsedBase[i], k)
    /\ (OverridesWellFormed /\ base_raw = <<S1Night1, S1Day, S1Night2>>)
          => sched_status = "ok"
    /\ (OverridesWellFormed /\ base_raw = <<S1Night1, S1Night2>>)
          => (sched_status = "error" /\ sched_error = "gap" /\ sched_gap = 360)

C1_Witness ==
    /\ base_raw = <<S1Night1, S1Night2>>
    /\ sched_status = "error" /\ sched_error = "gap" /\ sched_gap = 360

\* indices of the overrides matching the instant last resolved
MatchingOverrides == {i \in DOMAIN schedule.overrides : Matches(schedule.overrides[i], now)}

\* C2: if some override matches now, resolve returns the show of the first
\* matching override in configuration order; the base block is used only when
\* no override matches.
C2_OverridePrecedence ==
    (sched_status = "ok" /\ resolved # "") =>
        IF MatchingOverrides # {}
        THEN \E i \in MatchingOverrides :
                /\ \A j \in MatchingOverrides : i <= j
                /\ resolved = schedule.overrides[i].show_id
        ELSE \E i \in DOMAIN schedule.base :
                /\ Matches(schedule.base[i], now)
                /\ resolved = schedule.base[i].show_id

C2_Witness ==
    /\ sched_status = "ok" /\ resolved # ""
    /\ \E i, j \in MatchingOverrides :
          /\ i < j
          /\ schedule.overrides[i].show_id # schedule.overrides[j].show_id
          /\ resolved = schedule.overrides[i].show_id

\* the day before d, the week wrapping from mon back to sun
DayBefore(d) ==
    CASE d = 0 -> 6 [] d = 1 -> 0 [] d = 2 -> 1 [] d = 3 -> 2
      [] d = 4 -> 3 [] d = 5 -> 4 [] d = 6 -> 5

S2X   == [start |-> <<22, 0>>, end |-> <<2, 0>>,  show |-> "X"]
S2Day == [start |-> <<2, 0>>,  end |-> <<22, 0>>, show |-> "day"]

\* C3: a cross-midnight override with day set D decides resolve(d, m) exactly
\* when (d in D and m >= start) or (the day before d is in D and m < end);
\* with base X 22:00-02:00 and override Y 22:00-02:00 on fri: Fri 23:30 and
\* Sat 01:30 resolve to Y, Sat 23:30 and Fri 01:30 to X.
C3_CrossMidnightOverride ==
    (sched_status = "ok" /\ resolved # "") =>
        /\ (Len(schedule.overrides) = 1
            /\ schedule.overrides[1].end_minute < schedule.overrides[1].start_minute) =>
              LET o == schedule.overrides[1]
                  applies == \/ now.day \in o.days /\ now.minute >= o.start_minute
                             \/ DayBefore(now.day) \in o.days /\ now.minute < o.end_minute
              IN  IF applies
                  THEN resolved = o.show_id
                  ELSE \E i \in DOMAIN schedule.base :
                          /\ CoversMinute(schedule.base[i], now.minute)
                          /\ resolved = schedule.base[i].show_id
        /\ (base_raw = <<S2X, S2Day>> /\ overrides_raw = <<OvFri>>) =>
              /\ now = [day |-> 4, minute |-> 1410] => resolved = "Y"
              /\ now = [day |-> 5, minute |-> 90]   => resolved = "Y"
              /\ now = [day |-> 5, minute |-> 1410] => resolved = "X"
              /\ now = [day |-> 4, minute |-> 90]   => resolved = "X"

C3_Witness ==
    /\ base_raw = <<S2X, S2Day>> /\ overrides_raw = <<OvFri>>
    /\ sched_status = "ok"
    /\ now = [day |-> 5, minute |-> 90] /\ resolved = "Y"

\* C4: every block of a successfully loaded schedule, base or override, has
\* start_minute # end_minute.
C4_NoEmptyBlockLoaded ==
    sched_status = "ok" =>
        /\ \A i \in DOMAIN schedule.base :
              schedule.base[i].start_minute # schedule.base[i].end_minute
        /\ \A i \in DOMAIN schedule.overrides :
              schedule.overrides[i].start_minute # schedule.overrides[i].end_minute

(***************************************************************************)
(* Claims about the now-playing file                                       *)
(***************************************************************************)

\* C6: a reader that opens the now-playing file at any point never observes a
\* partial or empty document, and once the first publish has completed the
\* target path always holds a complete document.
C6_AtomicNowPlaying ==
    /\ rd_seen \in {"never", "absent"} \cup Docs
    /\ rd_pc = "opened" => IsComplete(inodes[rd_fd])
    /\ published => (fs_dir[TargetPath] # 0 /\ IsComplete(inodes[fs_dir[TargetPath]]))

\* the reader holds the previous document open while the next one is half written
C6_Witness ==
    /\ published /\ rd_pc = "opened" /\ pub_pc = "writing"
    /\ inodes[rd_fd].doc # pub_payload

(***************************************************************************)
(* Claims about POST /message                                              *)
(***************************************************************************)

\* C10: of two valid requests of one client less than 300 s apart the first is
\* answered 200 and stored, the second is answered 429 with a wait between 1
\* and 300 seconds and is not stored; no client has two stored messages
\* accepted less than 300 s apart.
C10_RateLimit ==
    /\ last_response.code = 429 =>
          /\ 1 <= last_response.wait /\ last_response.wait <= MESSAGE_COOLDOWN
          /\ Len(messages) = last_response.before
          /\ \E i \in DOMAIN messages :
                /\ messages[i].ip = last_response.ip
                /\ last_response.at - messages[i].at < MESSAGE_COOLDOWN * TicksPerSecond
    /\ last_response.code = 200 =>
          /\ Len(messages) = last_response.before + 1
          /\ messages[Len(messages)].ip = last_response.ip
          /\ messages[Len(messages)].at = last_response.at
    /\ \A i, j \in DOMAIN messages :
          (i < j /\ messages[i].ip = messages[j].ip)
             => messages[j].at - messages[i].at >= MESSAGE_COOLDOWN * TicksPerSecond

\* the parts of C10 other than the lower bound of the wait
C10_RateLimitWaitFromZero ==
    /\ last_response.code = 429 =>
          /\ 0 <= last_response.wait /\ last_response.wait <= MESSAGE_COOLDOWN
          /\ Len(messages) = last_response.before
          /\ \E i \in DOMAIN messages :
                /\ messages[i].ip = last_response.ip
                /\ last_response.at - messages[i].at < MESSAGE_COOLDOWN * TicksPerSecond
    /\ last_response.code = 200 =>
          /\ Len(messages) = last_response.before + 1
          /\ messages[Len(messages)].ip = last_response.ip
          /\ messages[Len(messages)].at = last_response.at
    /\ \A i, j \in DOMAIN messages :
          (i < j /\ messages[i].ip = messages[j].ip)
             => messages[j].at - messages[i].at >= MESSAGE_COOLDOWN * TicksPerSecond

\* C5: at most one encoder child is alive in every reachable state of the
\* engine, and run() is at the point where it spawns an encoder only when
\* the encoder it holds is not alive (none yet, failed the readiness check,
\* or poll() returned an exit status)
C5_AtMostOneEncoder ==
    /\ live_encoders <= 1
    /\ pc = "start" => encoder_proc # "alive"

\* C5 witness: an encoder has just been spawned after tracks had already been
\* published, the encoder before it having died
C5_Witness ==
    /\ pc = "wait_ready"
    /\ encoder_proc = "alive"
    /\ live_encoders = 1
    /\ now_playing # NoDoc

\* C7: while PCM of an asset has been written to the encoder by the current
\* pipe_track call, the published now-playing document names that asset
C7_PublishBeforePlay ==
    (pc = "pipe_loop" /\ chunks > 0)
        => now_playing.track = CleanName(asset, site \in {"forced", "segment"})

\* C8: the row last appended to the play history belongs to an asset of which
\* at least one PCM chunk was written to the encoder
C8_HistoryImpliesAudibility ==
    last_play # NoPlay => last_play.pcm >= 1

\* a dedication that has been played to its end is still on disk only
\* between the return of pipe_track and the statements that follow it
PlayedDedicationRemoved ==
    \A d \in ded_done :
        d \in seg_files => pc \in {"after_segment", "after_forced", "stopped"}

\* a dedication file leaves the disk only after it has been played to its end
OnlyPlayedDedicationRemoved ==
    \A d \in Dedications :
        (d \in seg_files /\ d \notin seg_files') => d \in ded_done

\* C9: a listener dedication is removed once it has been played, whichever
\* path played it, and one whose playback was cut short is not removed
C9_SingleUseDedications ==
    [](PlayedDedicationRemoved) /\ [][OnlyPlayedDedicationRemoved]_vars

\* C11: whenever no save_message call is under way, messages.json holds at
\* most 100 entries and they are the most recent messages submitted, in
\* arrival order
C11_MessageRing ==
    /\ Len(store_file) <= MESSAGE_RING
    /\ (\A w \in Writers : sv_pc[w] = "idle")
          => store_file = MostRecent(submitted, MESSAGE_RING)

\* the size part of C11 alone
C11_RingSizeOnly == Len(store_file) <= MESSAGE_RING

\* segment_after_tracks of the show of the current queue pass
Interval == ShowCfg[ctx].segment_after_tracks

\* the engine is between two items or busy with a music item or a podcast
BeforeSegment ==
    \/ pc \in {"for", "forced", "music", "after_music", "after_podcast"}
    \/ pc \in {"pipe_enter", "pipe_loop"} /\ site \in {"music", "podcast"}

\* the engine is busy with the segment of the cadence
AtSegment ==
    /\ pc \in {"pipe_enter", "pipe_loop", "after_segment"}
    /\ site = "segment"

\* floor(a / b) and the distance of two naturals
AbsDiff(a, b) == IF a >= b THEN a - b ELSE b - a

\* C12: without forced segments and failures and within one show with
\* segment_after_tracks = n, a segment is streamed after exactly n music
\* items, never earlier and never later, whatever the queue refreshes in
\* between, and after K music items floor(K/n) segments, give or take one,
\* have been streamed
C12_Cadence ==
    ctx # "" =>
        /\ run_len <= Interval
        /\ (BeforeSegment /\ pc # "after_music") => run_len < Interval
        /\ AtSegment => run_len = Interval
        /\ (pc = "for" /\ run_len = 0 /\ music_n > 0) => seg_n > 0
        /\ AbsDiff(seg_n, music_n \div Interval) <= 1

\* C12 witness: the second segment of a show with n = 2 starts after four
\* music items, a new queue having been curated on the way
C12_Witness ==
    /\ AtSegment
    /\ ctx = "A"
    /\ music_n = 4
    /\ seg_n = 1
    /\ pc = "pipe_loop"

\* C13: a track longer than MAX_TRACK_DURATION gets a window of 90 to 150
\* seconds that starts at 10 s or later and ends 10 s or more before the end
\* of the track; a track of at most 150 s, or of unknown duration, is played
\* whole from offset 0
C13_ChoppingBounds ==
    chop_pc = "chosen" =>
        IF track_duration # NoDuration /\ track_duration > MAX_TRACK_DURATION
        THEN /\ CHUNK_MIN_DURATION <= play_duration
             /\ play_duration <= CHUNK_MAX_DURATION
             /\ start_time >= ChopMargin
             /\ start_time + play_duration <= track_duration - ChopMargin
        ELSE /\ start_time = 0
             /\ play_duration = track_duration

\* the parts of C13 that do not depend on the position of the window
C13_LengthAndFullPlay ==
    chop_pc = "chosen" =>
        IF track_duration # NoDuration /\ track_duration > MAX_TRACK_DURATION
        THEN /\ CHUNK_MIN_DURATION <= play_duration
             /\ play_duration <= CHUNK_MAX_DURATION
             /\ start_time + play_duration <= track_duration
        ELSE /\ start_time = 0
             /\ play_duration = track_duration

\* C14: a `segment` command taken while a music track is piped is followed
\* by a segment right after that track; once that segment has been streamed
\* the force flag is clear and the next segment comes after n further music
\* items (n = 3: M, M, S, M, M, M, S)
C14_ForcedSegment ==
    ctx # "" =>
        /\ owed => \/ pc \in {"pipe_loop", "after_music"} /\ site \in {"music", ""}
                   \/ AtSegment
        /\ run_len <= Interval
        /\ (BeforeSegment /\ pc # "after_music") => run_len < Interval
        /\ AtSegment => (run_len = Interval \/ owed)
        /\ (pc = "for" \/ pc = "music") => ~force_segment

\* C14 witness: in the show with n = 3 the first segment was forced after
\* the second track and the second segment starts three tracks later
C14_Witness ==
    /\ ctx = "C"
    /\ AtSegment
    /\ pc = "pipe_loop"
    /\ music_n = 5
    /\ seg_n = 1
    /\ run_len = 3
    /\ ~owed

\* a scheduled podcast is due: the show of the hour has podcasts enabled, the
\* hour is a podcast hour, no podcast has been played in it and there are
\* podcasts
PodcastDue ==
    /\ ShowCfg[ShowAt(hour)].podcasts_enabled
    /\ (hour % 24) \in PODCAST_HOURS
    /\ hour \notin pod_hours
    /\ Podcasts # {}

\* run() takes the next track of the queue and goes on to play something
TakesItem == pc = "for" /\ pc' \in {"forced", "pipe_enter"}

\* the step starts a podcast
StartsPodcast == pc' = "pipe_enter" /\ site' = "podcast" /\ pc # "pipe_enter"

\* C15: whenever run() takes a track, it first starts a podcast if and only
\* if a scheduled podcast is due in that hour; so one podcast per podcast
\* hour of a show with podcasts enabled, none in other hours or shows, and
\* one again in a later podcast hour
C15_PodcastSlot ==
    [][/\ TakesItem => (PodcastDue <=> StartsPodcast)
       /\ StartsPodcast => TakesItem]_vars

\* C15 witness: a podcast was played in hour 0, none was started in hour 3
\* (podcasts disabled) and one is being piped in hour 6
C15_Witness ==
    /\ hour = 6
    /\ pod_hours = {0}
    /\ pc = "pipe_loop"
    /\ site = "podcast"
    /\ chunks > 0


\* C16 (encoder respawn): once the encoder was killed in the middle of an
\* asset, a NowPlaying document is published only for an asset that is then
\* streamed: update_now_playing is never called while the encoder is down,
\* where pipe_track returns at its entry without writing PCM.
Publishes == pc # "pipe_enter" /\ pc' = "pipe_enter" /\ site' # "forced"

C16_EncoderRespawn == [][Publishes => encoder_proc = "alive"]_vars


\* C17 (dedication lifecycle): when a dedication lies in the segments
\* directory and the previous segment type was not listener_dedication, the
\* segment that a segment slot selects is the newest dedication, whatever the
\* period folders hold.
SelectsSegment ==
    pc # "pipe_enter" /\ pc' = "pipe_enter" /\ site' \in {"segment", "forced"}

C17_DedicationFirst ==
    [][(/\ SelectsSegment
        /\ seg_files \cap Dedications # {}
        /\ last_segment_type # "listener_dedication")
          => asset' = Newest(seg_files \cap Dedications)]_vars


\* C18 (command single-shot): a poll of command.txt leaves the file empty, so
\* the payload of one write is returned by one poll only; a poll that finds
\* nothing or a payload other than skip, segment and podcast changes no flag
\* and does not interrupt the asset; a force flag is raised, and an asset is
\* cut short by a poll, only in the poll that returns the matching payload.
Polls == pc = "pipe_loop" /\ chunks' = chunks + 1

C18_CommandSingleShot ==
    [][/\ Polls => command_file' = ""
       /\ (Polls /\ command_file \notin {"skip", "segment", "podcast"})
             => /\ pc' = "pipe_loop"
                /\ UNCHANGED <<skip_current, force_segment, force_podcast>>
       /\ (Polls /\ pc' # "pipe_loop") => command_file = "skip"
       /\ (~force_segment /\ force_segment') => (Polls /\ command_file = "segment")
       /\ (~force_podcast /\ force_podcast') => (Polls /\ command_file = "podcast")]_vars

\* a `segment` written during a music track has been returned by a poll: the
\* flag is up, the file is empty and the track goes on
C18_Witness ==
    /\ pc = "pipe_loop" /\ site = "music" /\ chunks > 0
    /\ force_segment /\ command_file = ""


\* C19 (forced podcast): the poll of pipe_track that returns `podcast` raises
\* the engine's force_podcast flag, the one that run() tests before the next
\* music item.
C19_ForcedPodcast ==
    [][(Polls /\ command_file = "podcast") => force_podcast']_vars


\* C20 (atomic read-and-truncate): what check_command erases from command.txt
\* is the payload it read and returns, so that a command written while a
\* poll is under way is returned by it or stays in the file.
C20_AtomicPoll ==
    [][(cc_pc = "read" /\ cc_pc' = "idle") => command_file = cc_cmd]_vars


(***************************************************************************)
(* Claims about the watchdog                                               *)
(***************************************************************************)

\* c's check failed in this step and left it down
FailedCheck(c) == failure_counts'[c] > failure_counts[c]

\* a DOWN alert for c was handed to send_pushover in this step
AlertEmitted(c) == Len(wd_alerts'[c]) > Len(wd_alerts[c])

\* C21 (supervisor escalation), first half: a DOWN alert for a component is
\* emitted only when MAX_RETRIES restart attempts in a row have failed.
C21_NoEarlyAlert ==
    [][\A c \in Components : AlertEmitted(c) => wd_attempts'[c] >= MAX_RETRIES]_vars

\* C21 (supervisor escalation): the alert comes only after MAX_RETRIES failed
\* restart attempts in a row, and every failed check of a component that
\* stays down makes one more restart attempt, before and after the alert.
C21_Escalation ==
    [][\A c \in Components :
          /\ AlertEmitted(c) => wd_attempts'[c] >= MAX_RETRIES
          /\ FailedCheck(c) => wd_attempts'[c] = wd_attempts[c] + 1]_vars

\* the second half alone
C21_KeepsTrying ==
    [][\A c \in Components :
          FailedCheck(c) => wd_attempts'[c] = wd_attempts[c] + 1]_vars


\* two DOWN alerts of one component in a row lie at least ALERT_COOLDOWN apart
AlertsSpaced ==
    \A c \in Components : \A i \in 1..(Len(wd_alerts[c]) - 1) :
        wd_alerts[c][i + 1].at - wd_alerts[c][i].at >= ALERT_COOLDOWN

\* a failed check that leaves c down, more than ALERT_COOLDOWN after c's own
\* last alert or with no alert of c so far, emits an alert
OwnCooldownOnly ==
    \A c \in Components :
        (/\ FailedCheck(c)
         /\ \/ wd_alerts[c] = <<>>
            \/ wd_clock' - wd_alerts[c][Len(wd_alerts[c])].at > ALERT_COOLDOWN)
          => AlertEmitted(c)

\* C22 (alert rate limit): for each component two DOWN alerts are never less
\* than ALERT_COOLDOWN seconds apart, and whether a component's alert goes
\* out depends on that component's own last alert only.
C22_AlertRateLimit == [](AlertsSpaced) /\ [][OwnCooldownOnly]_vars

\* icecast has alerted twice, and api alerted in between
C22_Witness ==
    /\ Len(wd_alerts["icecast"]) = 2
    /\ Len(wd_alerts["api"]) = 1
    /\ wd_alerts["api"][1].at > wd_alerts["icecast"][1].at
    /\ wd_alerts["api"][1].at < wd_alerts["icecast"][2].at


\* a body that is a JSON object with a string `message` of 1 to 280
\* characters after trim
ValidBody(body) == body.kind = "ok" /\ body.len >= 1 /\ body.len <= MESSAGE_MAX_LEN

\* a request has been answered in this step
Answered == last_response' # last_response

\* C23 (POST /message validation): a request with an invalid body that is
\* not turned away by the rate limit is answered 400, stores nothing and
\* leaves the client's timestamp unchanged; with no failure on the server's
\* side no request is answered 500.
C23_Validation ==
    [][Answered =>
         /\ (~ValidBody(last_response'.body) /\ last_response'.code # 429)
               => /\ last_response'.code = 400
                  /\ UNCHANGED <<messages, last_message_times>>
         /\ last_response'.code # 500]_vars


(***************************************************************************)
(* Claims about the play history                                           *)
(***************************************************************************)

\* C24 (history failures never stop streaming): with the play history as the
\* only thing that fails, no exception ends the streaming loop.
C24_HistoryNeverStops == pc # "crashed"


(***************************************************************************)
(* Claims about skip                                                       *)
(***************************************************************************)

\* pipe_track has returned and run() has not yet looked at the result
Returned == pc \in {"after_podcast", "after_forced", "after_music", "after_segment"}

C26_ConfigErrorFatal ==
    sched_file = "invalid"
        => /\ encoder_proc = "none" /\ live_encoders = 0
           /\ now_playing = NoDoc /\ pc = "start"


\* C27 (recently played): was_played_recently(path, hours) is true exactly
\* when the table holds a row for path whose play instant lies within the
\* last hours hours before the instant of the query.
C27_RecentWindow ==
    ph_query # NoQuery
        => ph_query.found =
             (\E r \in plays : /\ r.filepath = ph_query.filepath
                               /\ r.at > ph_now - ph_query.hours)


(***************************************************************************)
(* Claims about the content of the now-playing document                    *)
(***************************************************************************)

\* C28 (now-playing content): every document that the engine publishes for
\* an asset carries the id of the show resolved for that asset in show_id and
\* that show's name in show, and one of the three kinds in type.
C28_NowPlayingContent ==
    [][now_playing' # now_playing
          => /\ now_playing'.show_id = ctx
             /\ now_playing'.show = ShowCfg[ctx].show_name
             /\ now_playing'.type \in {"music", "podcast", "segment"}]_vars


(***************************************************************************)
(* Claims about `segment` commands taken during any asset                  *)
(***************************************************************************)

\* C29 (no consumed segment command is dropped): with segments in the
\* library and the encoder up, a `segment` command that check_command has
\* returned keeps force_segment set until a segment begun after it was
\* taken has been streamed, whatever was streaming when it was taken.
C29_NoSegmentCommandDropped == cmd_seg # NoCmd => force_segment


(***************************************************************************)
(* Claims about messages.json under its three rewriters                    *)
(***************************************************************************)

\* C30 (no lost message): whenever no process is inside a rewrite of
\* messages.json, every message whose save_message call in the API has
\* returned (the request is then answered with 200) and that fewer than 100
\* newer messages have followed is in the file.
C30_NoLostMessage ==
    (\A w \in Rewriters : sv_pc[w] = "idle")
        => \A n \in acked :
             submitted - n < MESSAGE_RING => n \in Range(store_file)

====
